---- MODULE Spec2Model ----
(***************************************************************************)
(* The presenter overlay's real-time pipeline: Renderer (renderer.js),     *)
(* FirebaseListener in its REST + Server-Sent-Events revision              *)
(* (firebase-listener.js, lines 171-519), EmojiAnimator                    *)
(* (emoji-animator.js) and the event log they talk to.                     *)
(*                                                                         *)
(* Strings the code inspects character by character (room codes, frame     *)
(* paths, item keys) are sequences of one-character strings.  JavaScript   *)
(* null is the one-element sequence NULL for such values, "" for plain     *)
(* strings and 0 for animation frame ids.                                  *)
(***************************************************************************)
EXTENDS Integers, Sequences, FiniteSets, TLC

\* ------------------------------------------------------------------ bounds
\* connect attempts that reach the registration call in one behaviour
MaxAttempts == 2
\* markQuestionAnswered calls in one behaviour
MaxMarks == 2
\* frames, the opening snapshots aside, the event log streams in one behaviour
MaxFrames == 3
\* the same, in the behaviours that interleave connects
MaxRaceFrames == 1
\* the clock (Date.now()) runs over 0..MaxTime
MaxTime == 1
\* slots per EmojiAnimator: this.poolSize (100 in emoji-animator.js:11), scaled
poolSize == 3
\* length the questions buffer is cut to (50 in firebase-listener.js:269), scaled
maxQuestions == 2
\* spawn calls in a row, with no animation completing in between, in SpecPool
MaxBurst == 5
MaxDisplays == 2
MaxWindows == 4
MaxReactions == 3

\* DEBOUNCE_MS (firebase-client.js:10) is 200 ms; the audience clock counts units
\* of 100 ms
DEBOUNCE_MS == 2

\* the audience clock runs from DEBOUNCE_MS to MaxSendClock
MaxSendClock == 6

\* writes one audience page makes
MaxSends == 3
MaxClock == 3
\* RETENTION_DAYS (3 in main.js:161), scaled, in clock units
RetentionDays == 1

\* ------------------------------------------------------------------ values
NULL == <<"NULL">>

Topics == <<"reactions", "pace", "questions">>

\* what the presenter can type into the room input
RoomInputs == { <<"A", "b", " ">>, <<"c", "d">>, <<"x", " ">>, <<" ">>, <<>> }

\* the inputs of the specification that also streams frames: one room
StreamInputs == { <<"A", "b", " ">>, <<"x", " ">> }

ToLowerChar(ch) ==
  CASE ch = "A" -> "a"
    [] ch = "B" -> "b"
    [] ch = "C" -> "c"
    [] ch = "D" -> "d"
    [] OTHER -> ch

ToLowerCase(s) == [i \in 1..Len(s) |-> ToLowerChar(s[i])]

RECURSIVE TrimStart(_)
TrimStart(s) == IF s # <<>> /\ Head(s) = " " THEN TrimStart(Tail(s)) ELSE s

RECURSIVE TrimEnd(_)
TrimEnd(s) ==
  IF s # <<>> /\ s[Len(s)] = " " THEN TrimEnd(SubSeq(s, 1, Len(s) - 1)) ELSE s

Trim(s) == TrimEnd(TrimStart(s))

\* roomCode.toLowerCase().trim()
Normalize(roomCode) == Trim(ToLowerCase(roomCode))

\* `${this.roomCode}` inside a URL: null is spelled out
UrlRoom(roomCode) == IF roomCode = NULL THEN <<"n", "u", "l", "l">> ELSE roomCode

\* rooms the event log can be asked about
LogRooms == { UrlRoom(NULL) } \cup { Normalize(c) : c \in RoomInputs }

\* ------------------------------------------------------------------ EmojiAnimator
\* a pool of poolSize pre-allocated slots; frames are the requestAnimationFrame
\* callbacks of this animator that the browser still has to run
InitPool ==
  [ slots |-> [i \in 1..poolSize |-> [inUse |-> FALSE, animationId |-> 0, visible |-> FALSE]],
    activeCount |-> 0,
    frames |-> {} ]

\* requestAnimationFrame hands out an id no pending callback has
RequestId(p) ==
  CHOOSE n \in 1..(Cardinality(p.frames) + 1) : \A f \in p.frames : f.id # n

RequestAnimationFrame(p, i) ==
  LET id == RequestId(p) IN
  [p EXCEPT !.frames = @ \cup {[id |-> id, slot |-> i]},
            !.slots[i].animationId = id]

CancelAnimationFrame(p, id) == [p EXCEPT !.frames = {f \in @ : f.id # id}]

\* this.pool.find(p => !p.inUse): the first free slot, 0 when there is none
FindFree(p) ==
  IF \E i \in 1..Len(p.slots) : ~p.slots[i].inUse
  THEN CHOOSE i \in 1..Len(p.slots) :
         /\ ~p.slots[i].inUse
         /\ \A j \in 1..(i - 1) : p.slots[j].inUse
  ELSE 0

\* getFromPool() as it would be if an exhausted pool allocated one more slot
getFromPoolGrowing(p) ==
  LET i == FindFree(p) IN
  IF i # 0
  THEN [pool |-> [p EXCEPT !.slots[i].inUse = TRUE, !.activeCount = @ + 1], item |-> i]
  ELSE [pool |-> [p EXCEPT
                    !.slots = Append(@, [inUse |-> TRUE, animationId |-> 0, visible |-> FALSE]),
                    !.activeCount = @ + 1],
        item |-> Len(p.slots) + 1]

\* getFromPool(): the pool afterwards and the item found, 0 for null
getFromPool(p) ==
  LET i == FindFree(p) IN
  IF i # 0
  THEN [pool |-> [p EXCEPT !.slots[i].inUse = TRUE, !.activeCount = @ + 1], item |-> i]
  ELSE [pool |-> p, item |-> 0]

\* returnToPool(item) as it would be if it left activeCount alone
returnToPoolUncounted(p, i) ==
  LET c == IF p.slots[i].animationId # 0
           THEN [CancelAnimationFrame(p, p.slots[i].animationId)
                   EXCEPT !.slots[i].animationId = 0]
           ELSE p
  IN [c EXCEPT !.slots[i].visible = FALSE, !.slots[i].inUse = FALSE]

\* returnToPool(item) as it would be if it left the frame callback pending
returnToPoolKeepingFrame(p, i) ==
  [p EXCEPT !.slots[i].visible = FALSE,
            !.slots[i].inUse = FALSE,
            !.activeCount = @ - 1]

returnToPool(p, i) ==
  LET c == IF p.slots[i].animationId # 0
           THEN [CancelAnimationFrame(p, p.slots[i].animationId)
                   EXCEPT !.slots[i].animationId = 0]
           ELSE p
  IN [c EXCEPT !.slots[i].visible = FALSE,
               !.slots[i].inUse = FALSE,
               !.activeCount = @ - 1]

\* spawn(emoji) as it would be if an exhausted pool recycled its first slot
spawnRecycling(p) ==
  LET got == getFromPool(p) IN
  IF got.item = 0
  THEN RequestAnimationFrame(returnToPool(p, 1), 1)
  ELSE RequestAnimationFrame([got.pool EXCEPT !.slots[got.item].visible = TRUE], got.item)

\* spawn(emoji): an exhausted pool logs a warning and returns
spawn(p) ==
  LET got == getFromPool(p) IN
  IF got.item = 0
  THEN got.pool
  ELSE RequestAnimationFrame([got.pool EXCEPT !.slots[got.item].visible = TRUE], got.item)

\* the animate closure as it would be if it asked for another frame at progress >= 1
animateLooping(p, f, done) ==
  RequestAnimationFrame([p EXCEPT !.frames = @ \ {f}], f.slot)

\* the animate closure of slot f.slot, run by the browser; done is progress >= 1
animate(p, f, done) ==
  LET q == [p EXCEPT !.frames = @ \ {f}] IN
  IF done THEN returnToPool(q, f.slot) ELSE RequestAnimationFrame(q, f.slot)

\* clear() as it would be if it stopped at the first slot it returned
clearFirst(p) ==
  IF \E i \in 1..Len(p.slots) : p.slots[i].inUse
  THEN returnToPool(p, CHOOSE i \in 1..Len(p.slots) :
                         p.slots[i].inUse /\ \A j \in 1..(i - 1) : ~p.slots[j].inUse)
  ELSE p

RECURSIVE ClearFrom(_, _)
ClearFrom(p, i) ==
  IF i > Len(p.slots) THEN p
  ELSE ClearFrom(IF p.slots[i].inUse THEN returnToPool(p, i) ELSE p, i + 1)

clear(p) == ClearFrom(p, 1)

InUseCount(p) == Cardinality({i \in 1..Len(p.slots) : p.slots[i].inUse})


\* ------------------------------------------------------------------ state
VARIABLES
  renderer,          \* Renderer: the fields under "State" and the status line
  listener,          \* FirebaseListener: roomCode, eventSources, questions, isConnected, startTime
  animator,          \* Renderer.animator, the EmojiAnimator of #emoji-container
  questionAnimator,  \* Renderer.questionAnimator, the EmojiAnimator of #questions-container
  secondaryWindows,  \* the main process's secondaryWindows
  attempts,          \* the startListening calls that reached the registration call
  host,              \* event log: rooms/{room}/host exists
  deletes,           \* event log: DELETE requests for rooms/{room}/host on their way
  now,               \* the latest reading of Date.now()
  streamed,          \* frames streamed so far
  calls,             \* per animator, the spawn calls since a slot was last returned (history)
  lastDelivery,      \* what the step just taken dispatched (history, not program state)
  ghost,             \* history the claims are stated over, not program state
  marks,             \* the markQuestionAnswered calls that reached their write
  screen,            \* Electron's screen: the non-primary displays, and the windows made so far
  audience,          \* the audience page: FirebaseClient.roomCode and App.joinRoom's position
  stored,            \* event log: the timestamps of the items kept under rooms/{room}/{topic}
  removals           \* event log: remove() calls of the cleanup for rooms/{room} on their way

vars == << renderer, listener, animator, questionAnimator, secondaryWindows,
           attempts, host, deletes, now, streamed, calls, lastDelivery, ghost, marks, screen,
           audience, stored, removals >>

PaceLevels == {"slow", "good", "fast"}

Animators == {"animator", "questionAnimator"}

\* item values the event log can carry: isNull is JSON null; a field the item
\* lacks (undefined) is ""
Item(emoji, pace, text, ts, answered) ==
  [isNull |-> FALSE, emoji |-> emoji, pace |-> pace, text |-> text,
   timestamp |-> ts, answered |-> answered]

NullItem == [Item("", "", "", 0, FALSE) EXCEPT !.isNull = TRUE]
EmptyItem == Item("", "", "", 0, FALSE)

Times == 0..MaxTime

ItemsOf(topic) ==
  CASE topic = "reactions" -> { Item("fire", "", "", t, FALSE) : t \in Times }
    [] topic = "pace"      -> { Item("", p, "", t, FALSE) : p \in PaceLevels, t \in Times }
    [] topic = "questions" -> { Item("", "", "why?", t, a) : t \in Times, a \in BOOLEAN }

\* the item carries the field its topic's callback looks for
WellFormed(topic, data) ==
  /\ ~data.isNull
  /\ CASE topic = "reactions" -> data.emoji # ""
       [] topic = "pace"      -> data.pace # ""
       [] topic = "questions" -> data.text # ""
       [] OTHER -> FALSE

Keys == { <<"k", "1">>, <<"k", "2">> }

RootPath == <<"/">>

\* the program's state as one value, for the handlers that call each other;
\* g counts the handler invocations of the running step
World ==
  [ r |-> renderer, l |-> listener, animator |-> animator,
    questionAnimator |-> questionAnimator, secondaryWindows |-> secondaryWindows,
    deletes |-> deletes, g |-> [calls |-> 0, stale |-> 0, keys |-> <<>>] ]

SetWorld(w) ==
  /\ renderer' = w.r
  /\ listener' = w.l
  /\ animator' = w.animator
  /\ questionAnimator' = w.questionAnimator
  /\ secondaryWindows' = w.secondaryWindows
  /\ deletes' = w.deletes

\* ------------------------------------------------------------------ main process
\* new BrowserWindow(...) of createSecondaryOverlayWindows, with displayId set;
\* received counts the 'spawn-emoji' messages sent to the window
BrowserWindow(id, display) ==
  [id |-> id, display |-> display, destroyed |-> FALSE, received |-> 0]

\* win.webContents.send('spawn-emoji', emoji)
send(win) == [win EXCEPT !.received = @ + 1]

\* the 'broadcast-emoji' handler as it would be without the isDestroyed() test
broadcastEmojiAll(sw) == [i \in DOMAIN sw |-> send(sw[i])]

\* ipcMain.handle('broadcast-emoji'): one 'spawn-emoji' message per live window
broadcastEmoji(sw) ==
  [i \in DOMAIN sw |-> IF ~sw[i].destroyed THEN send(sw[i]) ELSE sw[i]]

\* screen.getAllDisplays() without the primary display, in the order of their ids
SecondaryDisplays(sc) ==
  CHOOSE ds \in [1..Cardinality(sc.displays) -> sc.displays] :
    \A i, j \in DOMAIN ds : i < j => ds[i] < ds[j]

\* createSecondaryOverlayWindows(): one new window per non-primary display
createSecondaryOverlayWindows(sc) ==
  LET ds == SecondaryDisplays(sc) IN
  [ windows |-> [i \in DOMAIN ds |-> BrowserWindow(sc.created + i, ds[i])],
    screen |-> [sc EXCEPT !.created = @ + Len(ds)] ]

\* win.close() on every window of the list that is not destroyed
CloseAll(sw, sc) ==
  [sc EXCEPT !.closed = @ \cup {sw[i].id : i \in {j \in DOMAIN sw : ~sw[j].destroyed}}]

\* recreateSecondaryWindows() as it would be if it kept the windows it closed
recreateSecondaryWindowsKeeping(sw, sc) ==
  LET made == createSecondaryOverlayWindows(CloseAll(sw, sc)) IN
  [made EXCEPT !.windows = sw \o @]

\* recreateSecondaryWindows(): the list afterwards and the screen afterwards
recreateSecondaryWindows(sw, sc) == createSecondaryOverlayWindows(CloseAll(sw, sc))

\* ------------------------------------------------------------------ Renderer handlers
updateStatus(w, text, connected, error) ==
  [w EXCEPT !.r.status = [text |-> text, connected |-> connected, error |-> error]]

\* a handler was invoked for an item; stale when the item predates the cutoff
Dispatched(w, data) ==
  [w EXCEPT !.g.calls = @ + 1,
            !.g.stale = @ + (IF data.timestamp < w.l.startTime THEN 1 ELSE 0)]

\* handleReaction as it would be if it spawned on the primary pool whatever
\* reactionsEnabled says
handleReactionIgnoringToggle(w, emoji) ==
  LET w1 == [w EXCEPT !.animator = spawn(@)]
      w2 == IF w1.r.reactionsEnabledSecondary
            THEN [w1 EXCEPT !.secondaryWindows = broadcastEmoji(@)]
            ELSE w1
  IN [w2 EXCEPT !.r.reactionCount = @ + 1]

handleReaction(w, emoji) ==
  LET w1 == IF w.r.reactionsEnabled THEN [w EXCEPT !.animator = spawn(@)] ELSE w
      w2 == IF w1.r.reactionsEnabledSecondary
            THEN [w1 EXCEPT !.secondaryWindows = broadcastEmoji(@)]
            ELSE w1
  IN [w2 EXCEPT !.r.reactionCount = @ + 1]

handlePaceFeedback(w, pace) ==
  LET w1 == IF pace \in PaceLevels /\ w.r.reactionsEnabled
            THEN [w EXCEPT !.animator = spawn(@)] ELSE w
      w2 == IF pace \in PaceLevels /\ w1.r.reactionsEnabledSecondary
            THEN [w1 EXCEPT !.secondaryWindows = broadcastEmoji(@)]
            ELSE w1
  IN IF pace \in PaceLevels THEN [w2 EXCEPT !.r.paceCount[pace] = @ + 1] ELSE w2

handleQuestion(w, question) == [w EXCEPT !.questionAnimator = spawn(@)]

\* ------------------------------------------------------------------ FirebaseListener
\* the three callbacks listenToRoom hands to setupSSEListener
ReactionsCallback(w, data, key) ==
  IF ~data.isNull /\ data.emoji # ""
  THEN handleReaction(Dispatched(w, data), data.emoji)
  ELSE w

PaceCallback(w, data, key) ==
  IF ~data.isNull /\ data.pace # ""
  THEN handlePaceFeedback(Dispatched(w, data), data.pace)
  ELSE w

\* the questions callback as it would be if it dropped from the front of the
\* buffer (shift) where it drops from the back (pop)
QuestionsCallbackShift(w, data, key) ==
  IF ~data.isNull /\ data.text # ""
  THEN LET question == [id |-> key, text |-> data.text,
                        timestamp |-> data.timestamp, answered |-> data.answered]
           unshifted == <<question>> \o w.l.questions
           kept == IF Len(unshifted) > maxQuestions THEN Tail(unshifted) ELSE unshifted
       IN handleQuestion(Dispatched([w EXCEPT !.l.questions = kept], data), question)
  ELSE w

QuestionsCallback(w, data, key) ==
  IF ~data.isNull /\ data.text # ""
  THEN LET question == [id |-> key, text |-> data.text,
                        timestamp |-> data.timestamp, answered |-> data.answered]
           unshifted == <<question>> \o w.l.questions
           kept == IF Len(unshifted) > maxQuestions
                   THEN SubSeq(unshifted, 1, Len(unshifted) - 1)
                   ELSE unshifted
       IN handleQuestion(Dispatched([w EXCEPT !.l.questions = kept], data), question)
  ELSE w

\* the callback handed to setupSSEListener for topic, invoked with (data, key)
Callback(w, topic, data, key) ==
  LET w1 == [w EXCEPT !.g.keys = Append(@, key)] IN
  CASE topic = "reactions" -> ReactionsCallback(w1, data, key)
    [] topic = "pace"      -> PaceCallback(w1, data, key)
    [] topic = "questions" -> QuestionsCallback(w1, data, key)

\* setupSSEListener(path, callback): one more open EventSource on the URL built
\* from this.roomCode; owner is the attempt that opened it (history)
setupSSEListener(w, path, owner) ==
  [w EXCEPT !.l.eventSources =
     Append(@, [room |-> UrlRoom(w.l.roomCode), path |-> path,
                initialLoadComplete |-> FALSE, owner |-> owner])]

\* message.path.replace(/^\//, '')
KeyOfPath(path) == IF path # <<>> /\ Head(path) = "/" THEN Tail(path) ELSE path

\* the 'put' listener as it would be if a payload that does not parse still
\* marked the snapshot as seen
PutHandlerMarking(w, i, frame) ==
  IF ~frame.parseOk THEN [w EXCEPT !.l.eventSources[i].initialLoadComplete = TRUE]
  ELSE IF frame.path = RootPath
  THEN [w EXCEPT !.l.eventSources[i].initialLoadComplete = TRUE]
  ELSE IF w.l.eventSources[i].initialLoadComplete /\ ~frame.data.isNull
  THEN Callback(w, w.l.eventSources[i].path, frame.data, KeyOfPath(frame.path))
  ELSE w

\* the 'put' listener as it would be without the test of initialLoadComplete
PutHandlerEager(w, i, frame) ==
  IF ~frame.parseOk THEN w
  ELSE IF frame.path = RootPath
  THEN [w EXCEPT !.l.eventSources[i].initialLoadComplete = TRUE]
  ELSE IF ~frame.data.isNull
  THEN Callback(w, w.l.eventSources[i].path, frame.data, KeyOfPath(frame.path))
  ELSE w

\* the 'put' listener of EventSource i
PutHandler(w, i, frame) ==
  IF ~frame.parseOk THEN w
  ELSE IF frame.path = RootPath
  THEN [w EXCEPT !.l.eventSources[i].initialLoadComplete = TRUE]
  ELSE IF w.l.eventSources[i].initialLoadComplete /\ ~frame.data.isNull
  THEN Callback(w, w.l.eventSources[i].path, frame.data, KeyOfPath(frame.path))
  ELSE w

RECURSIVE ForEachEntry(_, _, _)
ForEachEntry(w, topic, entries) ==
  IF entries = <<>> THEN w
  ELSE ForEachEntry(Callback(w, topic, Head(entries).value, Head(entries).key),
                    topic, Tail(entries))

\* keys that are array indices ("1", "2"), and the index they spell
IndexKeys == { <<"1">>, <<"2">> }

IndexOf(key) == IF key = <<"1">> THEN 1 ELSE 2

\* e, sorted by ascending index, for entries whose keys are all indices
RECURSIVE AscendingIndex(_)
AscendingIndex(e) ==
  IF e = <<>> THEN <<>>
  ELSE LET least == CHOOSE n \in DOMAIN e :
                      \A m \in DOMAIN e : IndexOf(e[n].key) <= IndexOf(e[m].key)
       IN <<e[least]>> \o AscendingIndex(SubSeq(e, 1, least - 1) \o SubSeq(e, least + 1, Len(e)))

\* Object.entries(message.data) as it would be if it kept the order of the frame
ObjectEntriesInFrameOrder(entries) == entries

\* Object.entries(message.data) of the parsed frame: the keys that are array
\* indices first, in ascending order, then the other keys in the frame's order
ObjectEntries(entries) ==
  LET IsIndex(x) == x.key \in IndexKeys
      IsName(x) == x.key \notin IndexKeys
  IN AscendingIndex(SelectSeq(entries, IsIndex)) \o SelectSeq(entries, IsName)

\* the 'patch' listener of EventSource i
PatchHandler(w, i, frame) ==
  IF ~frame.parseOk THEN w
  ELSE IF frame.isObject
  THEN ForEachEntry(w, w.l.eventSources[i].path, ObjectEntries(frame.entries))
  ELSE w

\* stopListening() as it would be without the removal of the host entry
stopListeningKeepsHost(w) ==
  [w EXCEPT !.l.eventSources = <<>>,
            !.l.roomCode = NULL,
            !.l.questions = <<>>,
            !.l.isConnected = FALSE]

\* stopListening() as it would be without the test of this.roomCode
stopListeningUnguarded(w) ==
  [w EXCEPT !.deletes[UrlRoom(w.l.roomCode)] = @ + 1,
            !.l.eventSources = <<>>,
            !.l.roomCode = NULL,
            !.l.questions = <<>>,
            !.l.isConnected = FALSE]

\* stopListening() as it would be if it left the EventSources open
stopListeningKeepsSources(w) ==
  LET d == IF w.l.roomCode # NULL
           THEN [w.deletes EXCEPT ![w.l.roomCode] = @ + 1]
           ELSE w.deletes
  IN [w EXCEPT !.deletes = d,
               !.l.roomCode = NULL,
               !.l.questions = <<>>,
               !.l.isConnected = FALSE]

\* stopListening(): every EventSource of the list is closed, the host entry of
\* the current room is deleted without waiting for the answer
stopListening(w) ==
  LET d == IF w.l.roomCode # NULL
           THEN [w.deletes EXCEPT ![w.l.roomCode] = @ + 1]
           ELSE w.deletes
  IN [w EXCEPT !.deletes = d,
               !.l.eventSources = <<>>,
               !.l.roomCode = NULL,
               !.l.questions = <<>>,
               !.l.isConnected = FALSE]

\* listenToRoom up to its await, with Date.now() returning t: the registration
\* PUT is on its way
ListenToRoomCall(w, roomCode, t) ==
  [stopListening(w) EXCEPT !.l.roomCode = Normalize(roomCode), !.l.startTime = t]

\* listenToRoom after a registration that succeeded
ListenToRoomResume(w, a) ==
  LET w1 == setupSSEListener(w, Topics[1], a)
      w2 == setupSSEListener(w1, Topics[2], a)
      w3 == setupSSEListener(w2, Topics[3], a)
  IN updateStatus([w3 EXCEPT !.l.isConnected = TRUE], "Connected", TRUE, FALSE)

\* ------------------------------------------------------------------ Renderer operations
cancelConnection(w) ==
  updateStatus(
    stopListening([w EXCEPT !.r.connectionAborted = TRUE, !.r.isConnecting = FALSE]),
    "Cancelled", FALSE, FALSE)

leaveRoom(w) ==
  updateStatus(
    [stopListening(w) EXCEPT
       !.r.isListening = FALSE,
       !.r.currentRoomCode = NULL,
       !.r.reactionCount = 0,
       !.r.paceCount = [p \in PaceLevels |-> 0],
       !.r.reactionsEnabled = TRUE,
       !.r.reactionsEnabledSecondary = TRUE],
    "Ready", FALSE, FALSE)

\* ------------------------------------------------------------------ history of a step
\* what one step handed to the handlers: op is "frame" (one EventSource event),
\* "publish" (one new item, streamed to every subscription of its path), "error"
\* (the error event of one EventSource), "clear" (clear() on the animator named
\* by topic, size being the slots it returned) or "none"
Delivery(op, frame, topic, live, delivered, w) ==
  [ op |-> op, event |-> frame.event, root |-> (frame.path = RootPath),
    parseOk |-> frame.parseOk, topic |-> topic,
    wellFormed |-> WellFormed(topic, frame.data),
    fresh |-> (frame.data.timestamp >= w.l.startTime),
    size |-> Len(frame.entries), live |-> live,
    listening |-> w.r.isListening, delivered |-> delivered,
    calls |-> w.g.calls, stale |-> w.g.stale, frame |-> frame, afterDrop |-> FALSE,
    keys |-> w.g.keys, cleared |-> 0 ]

Nothing ==
  [ op |-> "none", event |-> "", root |-> FALSE, parseOk |-> FALSE, topic |-> "",
    wellFormed |-> FALSE, fresh |-> FALSE, size |-> 0, live |-> FALSE,
    listening |-> FALSE, delivered |-> 0, calls |-> 0, stale |-> 0,
    frame |-> [event |-> "", parseOk |-> FALSE, path |-> <<>>, data |-> NullItem,
               isObject |-> FALSE, entries |-> <<>>],
    afterDrop |-> FALSE, keys |-> <<>>, cleared |-> 0 ]

\* the spawn calls on one animator since a slot of it was last returned, when
\* base slots were in use
NoCalls(base) == [base |-> base, requests |-> 0, dropped |-> 0]

\* history of the last leave of an established connection: room is the normalized
\* code of the room left, del the state of the removal request that leave issued
\* for it ("none", "inflight", "ok", "failed"), clean whether the connection came
\* from a connect that ran alone and undisturbed
\* App.joinRoom is not waiting for checkRoomExists
NoCheck == [waiting |-> FALSE, input |-> <<>>, key |-> <<>>, exists |-> FALSE]

\* no call of sendReaction yet
NoSend == [at |-> 0, ok |-> FALSE, write |-> FALSE]

NoLeave == [room |-> NULL, del |-> "none", clean |-> FALSE]

\* ------------------------------------------------------------------ initial state
\* after Renderer.init(): the modules are constructed, listener.init() has run
Init ==
  /\ renderer = [ reactionCount |-> 0,
                  paceCount |-> [p \in PaceLevels |-> 0],
                  isListening |-> FALSE,
                  isConnecting |-> FALSE,
                  connectionAborted |-> FALSE,
                  currentRoomCode |-> NULL,
                  reactionsEnabled |-> TRUE,
                  reactionsEnabledSecondary |-> TRUE,
                  status |-> [text |-> "Ready", connected |-> FALSE, error |-> FALSE] ]
  /\ listener = [ roomCode |-> NULL,
                  eventSources |-> <<>>,
                  questions |-> <<>>,
                  isConnected |-> TRUE,
                  startTime |-> -1 ]
  /\ animator = InitPool
  /\ questionAnimator = InitPool
  /\ screen = [displays |-> {1}, created |-> 1, closed |-> {}]
  /\ audience = [ roomCode |-> NULL, input |-> <<>>, check |-> NoCheck,
                  lastSentTime |-> 0, clock |-> DEBOUNCE_MS, sent |-> <<>>,
                  last |-> NoSend ]
  /\ stored = [room \in LogRooms |-> [reactions |-> {}, pace |-> {}, questions |-> {}]]
  /\ removals = {}
  /\ secondaryWindows = << BrowserWindow(1, 1) >>
  /\ attempts = <<>>
  /\ host = [room \in LogRooms |-> FALSE]
  /\ deletes = [room \in LogRooms |-> 0]
  /\ now = 0
  /\ streamed = 0
  /\ calls = [s \in Animators |-> NoCalls(0)]
  /\ lastDelivery = Nothing
  /\ ghost = [leave |-> NoLeave, leaves |-> 0, left |-> FALSE]
  /\ marks = <<>>

NoDelivery == lastDelivery' = Nothing

\* ------------------------------------------------------------------ connect, cancel, timeout
\* the attempt the Cancel button and the timeout act on: the one that set isConnecting
Cancelled(as) == [as EXCEPT ![Len(as)].cancelled = TRUE, ![Len(as)].disturbed = TRUE]

\* the attempts still waiting for their registration call
Pending(as) == { a \in DOMAIN as : as[a].put # "settled" }

Disturbed(as) ==
  [a \in DOMAIN as |-> IF a \in Pending(as) THEN [as[a] EXCEPT !.disturbed = TRUE] ELSE as[a]]

\* the two tests at the head of startListening as they would be without the second
ValidRoomCodeNonEmpty(roomCode) == roomCode # <<>>

\* the two tests at the head of startListening: !roomCode, roomCode.length < 2
ValidRoomCode(roomCode) == roomCode # <<>> /\ ~(Len(roomCode) < 2)

\* Renderer.startListening() up to its await, with the room input holding code
\* and the clock reading t
startListening(code, t) ==
  LET roomCode == Trim(code) IN
  /\ NoDelivery
  /\ UNCHANGED << host, streamed, calls, marks, screen, audience, stored, removals >>
  /\ t >= now
  /\ now' = t
  /\ IF ~ValidRoomCode(roomCode)
     THEN \* shakeInput()
          /\ SetWorld(World)
          /\ UNCHANGED << attempts, ghost >>
     ELSE IF renderer.isConnecting
     THEN /\ SetWorld(cancelConnection(World))
          /\ attempts' = Cancelled(attempts)
          /\ ghost' = [ghost EXCEPT !.leaves = 0]
     ELSE /\ Len(attempts) < MaxAttempts
          /\ LET w1 == updateStatus([World EXCEPT !.r.isConnecting = TRUE,
                                                  !.r.connectionAborted = FALSE],
                                    "Connecting...", FALSE, FALSE)
                 w2 == ListenToRoomCall(w1, roomCode, t)
             IN /\ SetWorld(w2)
                /\ attempts' = Append(Disturbed(attempts),
                     [ roomCode |-> roomCode,
                       putRoom |-> w2.l.roomCode,
                       put |-> "inflight",
                       timeout |-> "armed",
                       cancelled |-> FALSE,
                       disturbed |-> (Pending(attempts) # {}),
                       outcome |-> "pending" ])
          /\ ghost' = [ghost EXCEPT !.leave = NoLeave, !.leaves = 0]

\* the setTimeout callback of attempt a; timers of equal delay fire in the order
\* they were set
ConnectionTimeout(a) ==
  /\ attempts[a].timeout = "armed"
  /\ \A b \in 1..(a - 1) : attempts[b].timeout # "armed"
  /\ NoDelivery
  /\ UNCHANGED << host, now, streamed, calls, marks, screen, audience, stored, removals >>
  /\ ghost' = [ghost EXCEPT !.leaves = 0]
  /\ IF renderer.isConnecting /\ ~renderer.connectionAborted
     THEN /\ SetWorld(updateStatus(cancelConnection(World),
                                   "Connection timed out", FALSE, TRUE))
          /\ attempts' = [Cancelled(attempts) EXCEPT ![a].timeout = "fired"]
     ELSE /\ SetWorld(World)
          /\ attempts' = [attempts EXCEPT ![a].timeout = "fired"]

\* ------------------------------------------------------------------ event log: host entry
\* the registration PUT of attempt a reaches the log and is written
PutApply(a) ==
  /\ attempts[a].put = "inflight"
  /\ attempts' = [attempts EXCEPT ![a].put = "ok"]
  /\ host' = [host EXCEPT ![attempts[a].putRoom] = TRUE]
  /\ NoDelivery
  /\ UNCHANGED << renderer, listener, animator, questionAnimator, secondaryWindows,
                  deletes, now, streamed, calls, marks, ghost, screen, audience, stored, removals >>

\* the registration PUT of attempt a fails: network error or a non-OK answer
PutFail(a) ==
  /\ attempts[a].put = "inflight"
  /\ attempts' = [attempts EXCEPT ![a].put = "fail"]
  /\ NoDelivery
  /\ UNCHANGED << renderer, listener, animator, questionAnimator, secondaryWindows,
                  host, deletes, now, streamed, calls, marks, ghost, screen, audience, stored, removals >>

\* the removal request the last leave issued is still on its way to room
LeaveDeleteInFlight(room) == ghost.leave.del = "inflight" /\ ghost.leave.room = room

\* which of the DELETE requests on their way to room can settle next: the one the
\* last leave issued (mine) or another
CanSettle(room, mine) ==
  /\ deletes[room] > 0
  /\ mine => LeaveDeleteInFlight(room)
  /\ ~mine => deletes[room] > (IF LeaveDeleteInFlight(room) THEN 1 ELSE 0)

\* a removal DELETE reaches the log and is carried out
DeleteApply(room, mine) ==
  /\ CanSettle(room, mine)
  /\ deletes' = [deletes EXCEPT ![room] = @ - 1]
  /\ host' = [host EXCEPT ![room] = FALSE]
  /\ ghost' = IF mine THEN [ghost EXCEPT !.leave.del = "ok"] ELSE ghost
  /\ NoDelivery
  /\ UNCHANGED << renderer, listener, animator, questionAnimator, secondaryWindows,
                  attempts, now, streamed, calls, marks, screen, audience, stored, removals >>

\* a removal DELETE fails; stopListening's .catch logs it
DeleteFail(room, mine) ==
  /\ CanSettle(room, mine)
  /\ deletes' = [deletes EXCEPT ![room] = @ - 1]
  /\ ghost' = IF mine THEN [ghost EXCEPT !.leave.del = "failed"] ELSE ghost
  /\ NoDelivery
  /\ UNCHANGED << renderer, listener, animator, questionAnimator, secondaryWindows,
                  attempts, host, now, streamed, calls, marks, screen, audience, stored, removals >>

\* ------------------------------------------------------------------ connect, resumed
\* the catch clause of startListening, less its clearTimeout, as it would be if it
\* swallowed the error
CatchListenErrorSilently(w) == w

\* the catch clause of startListening, less its clearTimeout
CatchListenError(w) ==
  IF ~w.r.connectionAborted
  THEN updateStatus(w, "Connection failed", FALSE, TRUE)
  ELSE w

\* Renderer.startListening() of attempt a from its await to its end: the
\* registration call has settled
startListeningResume(a) ==
  /\ attempts[a].put \in {"ok", "fail"}
  /\ NoDelivery
  /\ UNCHANGED << host, now, streamed, calls, marks, screen, audience, stored, removals >>
  /\ ghost' = [ghost EXCEPT
                 !.leaves = 0,
                 !.left = @ /\ ~(attempts[a].put = "ok" /\ ~renderer.connectionAborted)]
  /\ IF attempts[a].put = "ok"
     THEN LET w1 == ListenToRoomResume(World, a) IN
          IF w1.r.connectionAborted
          THEN /\ SetWorld([stopListening(w1) EXCEPT !.r.isConnecting = FALSE])
               /\ attempts' = [attempts EXCEPT ![a].put = "settled",
                                               ![a].outcome = "aborted"]
          ELSE /\ SetWorld([updateStatus(w1, "Connected to", TRUE, FALSE) EXCEPT
                              !.r.isListening = TRUE,
                              !.r.currentRoomCode = attempts[a].roomCode,
                              !.r.reactionCount = 0,
                              !.r.isConnecting = FALSE])
               /\ attempts' = [attempts EXCEPT
                                 ![a].put = "settled",
                                 ![a].outcome = "connected",
                                 ![a].timeout = IF @ = "armed" THEN "cleared" ELSE @]
     ELSE /\ SetWorld([CatchListenError(World) EXCEPT !.r.isConnecting = FALSE])
          /\ attempts' = [attempts EXCEPT
                            ![a].put = "settled",
                            ![a].outcome = IF renderer.connectionAborted
                                           THEN "aborted" ELSE "failed",
                            ![a].timeout = IF @ = "armed" THEN "cleared" ELSE @]

\* ------------------------------------------------------------------ leave
\* the connection in place comes from the latest connect, which ran alone, from
\* its call to its success, with no cancel, timeout or leave in between
UndisturbedConnection ==
  /\ renderer.isListening
  /\ attempts # <<>>
  /\ attempts[Len(attempts)].outcome = "connected"
  /\ ~attempts[Len(attempts)].disturbed

\* Renderer.leaveRoom()
LeaveRoom ==
  /\ SetWorld(leaveRoom(World))
  /\ attempts' = Disturbed(attempts)
  /\ ghost' = [ leave |-> IF renderer.isListening
                          THEN [ room |-> Normalize(renderer.currentRoomCode),
                                 del |-> IF leaveRoom(World).deletes[Normalize(renderer.currentRoomCode)]
                                              > deletes[Normalize(renderer.currentRoomCode)]
                                         THEN "inflight" ELSE "none",
                                 clean |-> UndisturbedConnection ]
                          ELSE ghost.leave,
                leaves |-> IF ghost.leaves < 2 THEN ghost.leaves + 1 ELSE 2,
                left |-> TRUE ]
  /\ NoDelivery
  /\ UNCHANGED << host, now, streamed, calls, marks, screen, audience, stored, removals >>

\* ------------------------------------------------------------------ event log: streams
Values(topic) == ItemsOf(topic) \cup {NullItem, EmptyItem}

Paths == {RootPath} \cup { <<"/">> \o k : k \in Keys }

PutFrame(path, data) ==
  [event |-> "put", parseOk |-> TRUE, path |-> path, data |-> data,
   isObject |-> ~data.isNull, entries |-> <<>>]

PatchFrame(path, entries) ==
  [event |-> "patch", parseOk |-> TRUE, path |-> path, data |-> NullItem,
   isObject |-> TRUE, entries |-> entries]

\* the objects a patch can carry, in the frame's key order
Entries(topic) ==
  { << [key |-> <<"k", "1">>, value |-> v] >> : v \in Values(topic) }
  \cup { << [key |-> <<"k", "1">>, value |-> v1], [key |-> <<"k", "2">>, value |-> v2] >> :
           v1 \in Values(topic), v2 \in ItemsOf(topic) }

\* one item per topic and cutoff side, for the specifications that explore the
\* connection's interleavings
CoreItemsOf(topic) ==
  CASE topic = "reactions" -> { Item("fire", "", "", t, FALSE) : t \in Times }
    [] topic = "pace"      -> { Item("", "good", "", t, FALSE) : t \in Times }
    [] topic = "questions" -> { Item("", "", "why?", t, FALSE) : t \in Times }

CoreFrames(topic) ==
  { PutFrame(RootPath, NullItem), PutFrame(<<"/", "k", "1">>, NullItem),
    PatchFrame(RootPath, << [key |-> <<"k", "1">>, value |-> NullItem] >>),
    [PutFrame(RootPath, NullItem) EXCEPT !.parseOk = FALSE] }
  \cup { PutFrame(path, data) :
           path \in {RootPath, <<"/", "k", "1">>}, data \in CoreItemsOf(topic) }
  \cup { PatchFrame(RootPath, << [key |-> <<"k", "1">>, value |-> data] >>) :
           data \in CoreItemsOf(topic) }

Frames(topic) ==
  { PutFrame(path, data) : path \in Paths, data \in Values(topic) }
  \cup { PatchFrame(path, e) : path \in {RootPath, <<"/", "k", "1">>}, e \in Entries(topic) }
  \cup { [PatchFrame(RootPath, <<>>) EXCEPT !.isObject = FALSE] }
  \cup { [PutFrame(RootPath, NullItem) EXCEPT !.event = ev, !.parseOk = FALSE] :
           ev \in {"put", "patch"} }

\* the frames of the behaviours that follow one connection: every put the
\* questions stream can carry, a patch of two questions and the undecodable
\* frames, next to the frames above
StreamFrames(topic) ==
  CoreFrames(topic)
  \cup { [PatchFrame(RootPath, <<>>) EXCEPT !.parseOk = FALSE] }
  \cup { PatchFrame(RootPath, << [key |-> <<"2">>, value |-> v],
                                 [key |-> <<"k", "1">>, value |-> NullItem],
                                 [key |-> <<"1">>, value |-> v] >>) :
           v \in {Item("fire", "good", "why?", MaxTime, FALSE)} }
  \cup (IF topic = "questions"
        THEN { PutFrame(path, data) : path \in Paths, data \in Values(topic) }
             \cup { PatchFrame(RootPath,
                               << [key |-> <<"k", "1">>, value |-> Item("", "", "why?", 1, FALSE)],
                                  [key |-> <<"k", "2">>, value |-> Item("", "", "why?", 1, TRUE)] >>) }
        ELSE {})

\* the snapshot a stream opens with; the bound on streamed frames counts the others
Opening(i, frame) ==
  /\ frame.event = "put" /\ frame.parseOk /\ frame.path = RootPath
  /\ ~listener.eventSources[i].initialLoadComplete

OnFrame(w, i, frame) ==
  IF frame.event = "put" THEN PutHandler(w, i, frame) ELSE PatchHandler(w, i, frame)

\* the step before was a frame whose payload did not parse
Dropped(d) == d.op = "frame" /\ ~d.parseOk

\* EventSource i receives one event
SSEEvent(i, frame) ==
  /\ Opening(i, frame) \/ streamed < MaxFrames
  /\ streamed' = IF Opening(i, frame) THEN streamed ELSE streamed + 1
  /\ LET w == OnFrame(World, i, frame) IN
     /\ SetWorld(w)
     /\ lastDelivery' = [Delivery("frame", frame, listener.eventSources[i].path,
                                  listener.eventSources[i].initialLoadComplete, 1, w)
                           EXCEPT !.afterDrop = Dropped(lastDelivery)]
  /\ ghost' = [ghost EXCEPT !.leaves = 0]
  /\ UNCHANGED << attempts, host, now, calls, marks, screen, audience, stored, removals >>

\* eventSource.onerror of EventSource i: the error is logged
SSEError(i) ==
  /\ i \in DOMAIN listener.eventSources
  /\ SetWorld(World)
  /\ lastDelivery' = [Nothing EXCEPT !.op = "error", !.topic = listener.eventSources[i].path]
  /\ ghost' = [ghost EXCEPT !.leaves = 0]
  /\ UNCHANGED << attempts, host, now, streamed, calls, marks, screen, audience, stored, removals >>

RECURSIVE PutToAll(_, _, _)
PutToAll(w, subs, frame) ==
  IF subs = <<>> THEN w
  ELSE PutToAll(PutHandler(w, Head(subs), frame), Tail(subs), frame)

\* the subscriptions, in the order they were opened, that stream path room/topic
\* and have been sent their snapshot
RECURSIVE LiveOn(_, _, _, _)
LiveOn(es, i, room, topic) ==
  IF i > Len(es) THEN <<>>
  ELSE (IF es[i].room = room /\ es[i].path = topic /\ es[i].initialLoadComplete
        THEN <<i>> ELSE <<>>) \o LiveOn(es, i + 1, room, topic)

\* a producer adds one item under rooms/{room}/{topic}: the log streams it, as a
\* single-item put, to every subscription of that path
LogPublishTo(room, topic, key, data) ==
  LET subs == LiveOn(listener.eventSources, 1, room, topic)
      frame == PutFrame(<<"/">> \o key, data)
      w == PutToAll(World, subs, frame)
  IN /\ subs # <<>>
     /\ streamed < MaxFrames
     /\ streamed' = streamed + 1
     /\ SetWorld(w)
     /\ lastDelivery' = Delivery("publish", frame, topic, TRUE, Len(subs), w)
     /\ ghost' = [ghost EXCEPT !.leaves = 0]
     /\ UNCHANGED << attempts, host, now, calls, marks, screen, stored, removals >>

LogPublish(room, topic, key, data) ==
  /\ LogPublishTo(room, topic, key, data)
  /\ UNCHANGED audience

\* ------------------------------------------------------------------ questions answered
\* this.questions.find(q => q.id === questionId): the first such index, 0 if none
FindQuestion(questions, questionId) ==
  IF \E j \in DOMAIN questions : questions[j].id = questionId
  THEN CHOOSE j \in DOMAIN questions :
         /\ questions[j].id = questionId
         /\ \A k \in 1..(j - 1) : questions[k].id # questionId
  ELSE 0

\* the local update of markQuestionAnswered as it would be if it flipped the flag
MarkLocalToggle(questions, questionId) ==
  LET j == FindQuestion(questions, questionId) IN
  IF j # 0 THEN [questions EXCEPT ![j].answered = ~@] ELSE questions

\* markQuestionAnswered, after its await: question.answered = true
MarkLocal(questions, questionId) ==
  LET j == FindQuestion(questions, questionId) IN
  IF j # 0 THEN [questions EXCEPT ![j].answered = TRUE] ELSE questions

\* how the question stands in the buffer
Standing(questions, questionId) ==
  LET j == FindQuestion(questions, questionId) IN
  IF j = 0 THEN "absent" ELSE IF questions[j].answered THEN "answered" ELSE "unanswered"

\* Renderer.markQuestionAnswered(questionId) up to the await of the listener's
\* fetch: without a room the listener returns at once
markQuestionAnswered(questionId) ==
  /\ IF listener.roomCode = NULL
     THEN UNCHANGED marks
     ELSE /\ Len(marks) < MaxMarks
          /\ marks' = Append(marks, [ id |-> questionId, room |-> listener.roomCode,
                                      response |-> "none", status |-> "inflight",
                                      was |-> "" ])
  /\ NoDelivery
  /\ UNCHANGED << renderer, listener, animator, questionAnimator, secondaryWindows,
                  attempts, host, deletes, now, streamed, calls, ghost, screen, audience, stored, removals >>

\* the write of call m is answered: carried out (ok), refused with an HTTP error
\* status (error), or the request fails (rejected)
MarkSettle(m, response) ==
  /\ marks[m].status = "inflight"
  /\ marks' = [marks EXCEPT ![m].status = "settled", ![m].response = response]
  /\ NoDelivery
  /\ UNCHANGED << renderer, listener, animator, questionAnimator, secondaryWindows,
                  attempts, host, deletes, now, streamed, calls, ghost, screen, audience, stored, removals >>

\* markQuestionAnswered of call m from its await to its end
markQuestionAnsweredResume(m) ==
  /\ marks[m].status = "settled"
  /\ marks' = [marks EXCEPT ![m].status = "done",
                            ![m].was = Standing(listener.questions, marks[m].id)]
  /\ listener' = IF marks[m].response = "rejected"
                 THEN listener
                 ELSE [listener EXCEPT !.questions = MarkLocal(@, marks[m].id)]
  /\ NoDelivery
  /\ UNCHANGED << renderer, animator, questionAnimator, secondaryWindows,
                  attempts, host, deletes, now, streamed, calls, ghost, screen, audience, stored, removals >>

\* ------------------------------------------------------------------ animators, called directly
PoolOf(s) == IF s = "animator" THEN animator ELSE questionAnimator

\* the two animators as they would be if they shared one pool
SetPoolShared(s, p) ==
  /\ animator' = p
  /\ questionAnimator' = p

SetPool(s, p) ==
  /\ animator' = IF s = "animator" THEN p ELSE animator
  /\ questionAnimator' = IF s = "questionAnimator" THEN p ELSE questionAnimator

\* spawn(emoji) on animator s
Spawn(s) ==
  /\ calls[s].requests < MaxBurst
  /\ SetPool(s, spawn(PoolOf(s)))
  /\ calls' = [calls EXCEPT ![s].requests = @ + 1,
                            ![s].dropped = @ + (IF getFromPool(PoolOf(s)).item = 0 THEN 1 ELSE 0)]
  /\ lastDelivery' = IF lastDelivery.op = "clear" /\ lastDelivery.topic = s
                         /\ lastDelivery.size > 0
                      THEN [Nothing EXCEPT !.op = "spawn", !.topic = s,
                                           !.size = getFromPool(PoolOf(s)).item,
                                           !.cleared = lastDelivery.size]
                      ELSE Nothing
  /\ UNCHANGED << renderer, listener, secondaryWindows, attempts, host, deletes, now,
                  streamed, marks, ghost, screen, audience, stored, removals >>

\* the browser runs the pending frame callback f of animator s
AnimationFrame(s, f, done) ==
  /\ f \in PoolOf(s).frames
  /\ SetPool(s, animate(PoolOf(s), f, done))
  /\ calls' = IF done
              THEN [calls EXCEPT ![s] = NoCalls(InUseCount(animate(PoolOf(s), f, done)))]
              ELSE calls
  /\ NoDelivery
  /\ UNCHANGED << renderer, listener, secondaryWindows, attempts, host, deletes, now,
                  streamed, marks, ghost, screen, audience, stored, removals >>

\* clear() on animator s
Clear(s) ==
  /\ SetPool(s, clear(PoolOf(s)))
  /\ calls' = [calls EXCEPT ![s] = NoCalls(InUseCount(clear(PoolOf(s))))]
  /\ lastDelivery' = [Nothing EXCEPT !.op = "clear", !.topic = s,
                                     !.size = InUseCount(PoolOf(s))]
  /\ UNCHANGED << renderer, listener, secondaryWindows, attempts, host, deletes, now,
                  streamed, marks, ghost, screen, audience, stored, removals >>

\* ------------------------------------------------------------------ displays
Emojis == {"clap", "fire"}

\* the interval callback of testEmojis(): one reaction handed to the router
TestEmojiTick(emoji) ==
  /\ renderer.reactionCount < MaxReactions
  /\ SetWorld(handleReaction(World, emoji))
  /\ NoDelivery
  /\ UNCHANGED << attempts, host, now, streamed, calls, marks, ghost, screen, audience, stored, removals >>

\* 'change' on #reactions-toggle
ReactionsToggle(checked) ==
  /\ checked # renderer.reactionsEnabled
  /\ renderer' = [renderer EXCEPT !.reactionsEnabled = checked]
  /\ NoDelivery
  /\ UNCHANGED << listener, animator, questionAnimator, secondaryWindows, attempts, host,
                  deletes, now, streamed, calls, marks, ghost, screen, audience, stored, removals >>

\* 'change' on #reactions-toggle-secondary
ReactionsToggleSecondary(checked) ==
  /\ checked # renderer.reactionsEnabledSecondary
  /\ renderer' = [renderer EXCEPT !.reactionsEnabledSecondary = checked]
  /\ NoDelivery
  /\ UNCHANGED << listener, animator, questionAnimator, secondaryWindows, attempts, host,
                  deletes, now, streamed, calls, marks, ghost, screen, audience, stored, removals >>

\* a secondary window is closed from outside the program (closable: true)
WindowClosed(i) ==
  /\ i \in DOMAIN secondaryWindows
  /\ ~secondaryWindows[i].destroyed
  /\ secondaryWindows' = [secondaryWindows EXCEPT ![i].destroyed = TRUE]
  /\ NoDelivery
  /\ UNCHANGED << renderer, listener, animator, questionAnimator, attempts, host,
                  deletes, now, streamed, calls, marks, ghost, screen, audience, stored, removals >>

\* screen 'display-added' (d is new) or 'display-removed' (d was there):
\* recreateSecondaryWindows()
DisplayChange(d) ==
  LET sc == [screen EXCEPT !.displays = IF d \in @ THEN @ \ {d} ELSE @ \cup {d}]
      made == recreateSecondaryWindows(secondaryWindows, sc)
  IN /\ made.screen.created <= MaxWindows
     /\ secondaryWindows' = made.windows
     /\ screen' = made.screen
     /\ NoDelivery
     /\ UNCHANGED << renderer, listener, animator, questionAnimator, attempts, host,
                     deletes, now, streamed, calls, marks, ghost, audience, stored, removals >>

NextDisplay ==
  \/ \E emoji \in Emojis : TestEmojiTick(emoji)
  \/ \E checked \in BOOLEAN : ReactionsToggle(checked)
  \/ \E checked \in BOOLEAN : ReactionsToggleSecondary(checked)
  \/ \E i \in 1..MaxDisplays : WindowClosed(i)
  \/ \E d \in 1..MaxDisplays : DisplayChange(d)

SpecDisplay == Init /\ [][NextDisplay]_vars

\* ------------------------------------------------------------------ audience page
\* what presenter and audience can type for the rooms "ab" and "cd"
RoomVariants == { <<" ", "A", "B">>, <<"A", "b", " ">>, <<"c", "d">> }

\* FirebaseClient.checkRoomExists / setRoom: code.toLowerCase().trim()
ClientRoom(code) == Trim(ToLowerCase(code))

\* App.joinRoom() up to its await, from the connect screen (shown while no room
\* is joined, the button disabled while waiting): checkRoomExists reads
\* rooms/{key}/host
joinRoom(code) ==
  LET roomCode == Trim(code) IN
  /\ ~audience.check.waiting
  /\ audience.roomCode = NULL
  /\ audience' = IF ~ValidRoomCode(roomCode)
                 THEN audience
                 ELSE [audience EXCEPT !.check =
                         [ waiting |-> TRUE, input |-> roomCode, key |-> ClientRoom(roomCode),
                           exists |-> IF ClientRoom(roomCode) \in LogRooms
                                      THEN host[ClientRoom(roomCode)] ELSE FALSE ]]
  /\ NoDelivery
  /\ UNCHANGED << renderer, listener, animator, questionAnimator, secondaryWindows,
                  attempts, host, deletes, now, streamed, calls, marks, ghost, screen, stored, removals >>

\* App.joinRoom() after its await: setRoom(roomCode) when the room exists
joinRoomResume ==
  /\ audience.check.waiting
  /\ audience' = IF audience.check.exists
                 THEN [audience EXCEPT !.roomCode = ClientRoom(audience.check.input),
                                       !.input = audience.check.input,
                                       !.check = NoCheck]
                 ELSE [audience EXCEPT !.check = NoCheck]
  /\ NoDelivery
  /\ UNCHANGED << renderer, listener, animator, questionAnimator, secondaryWindows,
                  attempts, host, deletes, now, streamed, calls, marks, ghost, screen, stored, removals >>

\* App.leaveRoom() of the audience page
audienceLeaveRoom ==
  /\ audience.roomCode # NULL
  /\ audience' = [audience EXCEPT !.roomCode = NULL]
  /\ NoDelivery
  /\ UNCHANGED << renderer, listener, animator, questionAnimator, secondaryWindows,
                  attempts, host, deletes, now, streamed, calls, marks, ghost, screen, stored, removals >>

\* the emojis of the audience page's buttons, and one that is none of them
validEmojis == Emojis

SendInputs == validEmojis \cup {"x"}

\* FirebaseClient.sendReaction(emoji) with Date.now() reading c.clock; pushOk is
\* whether push() succeeds. The client afterwards, what the call returns and
\* whether the item was written
SendReaction(c, emoji, pushOk) ==
  IF c.roomCode = NULL THEN [client |-> c, ok |-> FALSE, write |-> FALSE]
  ELSE IF c.clock - c.lastSentTime < DEBOUNCE_MS
  THEN [client |-> c, ok |-> FALSE, write |-> FALSE]
  ELSE LET c1 == [c EXCEPT !.lastSentTime = c.clock] IN
       IF emoji \notin validEmojis THEN [client |-> c1, ok |-> FALSE, write |-> FALSE]
       ELSE [client |-> c1, ok |-> pushOk, write |-> pushOk]

\* a call of sendReaction: the item written goes under rooms/{roomCode}/reactions
\* and is streamed to the subscriptions of that path; sent and last are history
sendReaction(emoji, pushOk) ==
  LET r == SendReaction(audience, emoji, pushOk)
      subs == IF audience.roomCode = NULL THEN <<>>
              ELSE LiveOn(listener.eventSources, 1, audience.roomCode, "reactions")
  IN /\ r.write => Len(audience.sent) < MaxSends
     /\ audience' = [r.client EXCEPT
                       !.sent = IF r.write THEN Append(@, audience.clock) ELSE @,
                       !.last = [at |-> audience.clock, ok |-> r.ok, write |-> r.write]]
     /\ IF r.write /\ subs # <<>>
        THEN LogPublishTo(audience.roomCode, "reactions", <<"k", "1">>,
                          Item(emoji, "", "", now, FALSE))
        ELSE /\ NoDelivery
             /\ UNCHANGED << renderer, listener, animator, questionAnimator,
                             secondaryWindows, attempts, host, deletes, now, streamed,
                             calls, marks, ghost, screen, stored, removals >>

\* time passes on the audience device
AudienceTick ==
  /\ audience.clock < MaxSendClock
  /\ audience' = [audience EXCEPT !.clock = @ + 1]
  /\ NoDelivery
  /\ UNCHANGED << renderer, listener, animator, questionAnimator, secondaryWindows,
                  attempts, host, deletes, now, streamed, calls, marks, ghost, screen, stored, removals >>

\* one presenter and one audience page, typing variants of the same room codes
NextRoom ==
  \/ \E code \in RoomVariants : startListening(code, MaxTime)
  \/ \E a \in DOMAIN attempts : PutApply(a)
  \/ \E a \in DOMAIN attempts : startListeningResume(a)
  \/ \E room \in LogRooms, mine \in BOOLEAN : DeleteApply(room, mine)
  \/ LeaveRoom
  \/ \E i \in DOMAIN listener.eventSources :
       listener.eventSources[i].path = "reactions"
       /\ SSEEvent(i, PutFrame(RootPath, NullItem))
  \/ \E code \in RoomVariants : joinRoom(code)
  \/ joinRoomResume
  \/ audienceLeaveRoom
  \/ \E emoji \in Emojis :
       /\ audience.roomCode # NULL
       /\ streamed < MaxRaceFrames
       /\ LiveOn(listener.eventSources, 1, audience.roomCode, "reactions") # <<>>
       /\ sendReaction(emoji, TRUE)

SpecRoom == Init /\ [][NextRoom]_vars

\* one audience page tapping emojis, in and out of the room of one presenter
NextSend ==
  \/ attempts = <<>> /\ startListening(<<"c", "d">>, MaxTime)
  \/ \E a \in DOMAIN attempts : PutApply(a)
  \/ \E a \in DOMAIN attempts : startListeningResume(a)
  \/ \E code \in RoomVariants : joinRoom(code)
  \/ joinRoomResume
  \/ audienceLeaveRoom
  \/ AudienceTick
  \/ \E emoji \in SendInputs, pushOk \in BOOLEAN : sendReaction(emoji, pushOk)

SpecSend == Init /\ [][NextSend]_vars

\* ------------------------------------------------------------------ housekeeping
\* the clock moves on
Tick ==
  /\ now < MaxClock
  /\ now' = now + 1
  /\ NoDelivery
  /\ UNCHANGED << renderer, listener, animator, questionAnimator, secondaryWindows,
                  attempts, host, deletes, streamed, calls, marks, ghost, screen,
                  audience, stored, removals >>

\* a producer in a room with a host entry pushes one reaction, pace or question
\* item
LogStore(room, topic) ==
  /\ host[room]
  /\ stored' = [stored EXCEPT ![room][topic] = @ \cup {now}]
  /\ NoDelivery
  /\ UNCHANGED << renderer, listener, animator, questionAnimator, secondaryWindows,
                  attempts, host, deletes, now, streamed, calls, marks, ghost, screen,
                  audience, removals >>

\* cleanupOldData, for one room: reactions and pace items older than the cutoff
\* are removed, the room is read again, and remove() is called on it when it is
\* there (roomData) and has no active host, no reactions and no pace
CleanRoom(room, cutoffTime) ==
  LET kept == [ reactions |-> {t \in stored[room].reactions : ~(t < cutoffTime)},
                pace |-> {t \in stored[room].pace : ~(t < cutoffTime)},
                questions |-> stored[room].questions ]
      roomData == host[room] \/ kept.reactions # {} \/ kept.pace # {} \/ kept.questions # {}
      hasActiveHost == host[room]
      hasReactions == kept.reactions # {}
      hasPace == kept.pace # {}
  IN [ remove |-> roomData /\ ~hasActiveHost /\ ~hasReactions /\ ~hasPace,
       items |-> kept ]

\* the scheduled run of cleanupOldData, up to its remove() calls
cleanupOldData ==
  LET cutoffTime == now - RetentionDays IN
  /\ stored' = [room \in LogRooms |-> CleanRoom(room, cutoffTime).items]
  /\ removals' = removals \cup {room \in LogRooms : CleanRoom(room, cutoffTime).remove}
  /\ NoDelivery
  /\ UNCHANGED << renderer, listener, animator, questionAnimator, secondaryWindows,
                  attempts, host, deletes, now, streamed, calls, marks, ghost, screen,
                  audience >>

\* db.ref(`rooms/${roomCode}`).remove() of the cleanup reaches the log: the room
\* goes, with all it holds
RemoveApply(room) ==
  /\ room \in removals
  /\ removals' = removals \ {room}
  /\ host' = [host EXCEPT ![room] = FALSE]
  /\ stored' = [stored EXCEPT ![room] = [reactions |-> {}, pace |-> {}, questions |-> {}]]
  /\ NoDelivery
  /\ UNCHANGED << renderer, listener, animator, questionAnimator, secondaryWindows,
                  attempts, deletes, now, streamed, calls, marks, ghost, screen, audience >>

\* one presenter whose requests can fail, audience items, the clock and the
\* daily cleanup
NextClean ==
  \/ \E code \in StreamInputs :
       ~renderer.isConnecting /\ ~renderer.isListening /\ startListening(code, now)
  \/ \E a \in DOMAIN attempts : PutApply(a)
  \/ \E a \in DOMAIN attempts : startListeningResume(a)
  \/ renderer.isListening /\ LeaveRoom
  \/ \E room \in LogRooms : DeleteApply(room, TRUE)
  \/ \E room \in LogRooms : DeleteFail(room, TRUE)
  \/ \E room \in LogRooms, topic \in {"reactions", "pace", "questions"} : LogStore(room, topic)
  \/ Tick
  \/ cleanupOldData
  \/ \E room \in LogRooms : RemoveApply(room)

\* the schedule runs the cleanup again and again, and time passes
SpecClean == Init /\ [][NextClean]_vars /\ WF_vars(cleanupOldData) /\ WF_vars(Tick)

NextPool ==
  \/ \E s \in Animators : Spawn(s)
  \/ \E s \in Animators : \E f \in PoolOf(s).frames, done \in BOOLEAN : AnimationFrame(s, f, done)
  \/ \E s \in Animators : Clear(s)

SpecPool == Init /\ [][NextPool]_vars

\* the frame callback of slot i of animator s runs at progress >= 1
SlotCompletes(s, i) ==
  \E f \in PoolOf(s).frames : f.slot = i /\ AnimationFrame(s, f, TRUE)

\* frame callbacks keep firing and time advances: a running animation gets to
\* the frame at which its progress is 1
SpecPoolFair ==
  /\ Init /\ [][NextPool]_vars
  /\ \A s \in Animators : \A i \in 1..poolSize : WF_vars(SlotCompletes(s, i))

\* the streams of connects the log accepts: every registration call and every
\* removal request succeeds, and the clock reads MaxTime at each connect
Next ==
  \/ \E code \in StreamInputs : startListening(code, MaxTime)
  \/ \E a \in DOMAIN attempts : PutApply(a)
  \/ \E a \in DOMAIN attempts : startListeningResume(a)
  \/ \E room \in LogRooms, mine \in BOOLEAN : DeleteApply(room, mine)
  \/ LeaveRoom
  \/ \E i \in DOMAIN listener.eventSources :
       \E frame \in CoreFrames(listener.eventSources[i].path) :
         /\ Opening(i, frame) \/ streamed < MaxRaceFrames
         /\ SSEEvent(i, frame)
  \/ \E room \in LogRooms, t \in DOMAIN Topics :
       \E data \in CoreItemsOf(Topics[t]) :
         /\ streamed < MaxRaceFrames
         /\ LogPublish(room, Topics[t], <<"k", "1">>, data)

Spec == Init /\ [][Next]_vars

Responses == {"ok", "error", "rejected"}

\* the streams of one connect that the log accepts, with every frame they can carry
NextStream ==
  \/ \E code \in StreamInputs : attempts = <<>> /\ startListening(code, MaxTime)
  \/ \E a \in DOMAIN attempts : PutApply(a)
  \/ \E a \in DOMAIN attempts : startListeningResume(a)
  \/ \E i \in DOMAIN listener.eventSources :
       \E frame \in StreamFrames(listener.eventSources[i].path) : SSEEvent(i, frame)
  \/ \E i \in DOMAIN listener.eventSources : SSEError(i)

SpecStream == Init /\ [][NextStream]_vars

\* the questions one connection receives, unanswered, and the calls that mark them
QuestionPuts ==
  { PutFrame(RootPath, NullItem) }
  \cup { PutFrame(<<"/">> \o k, Item("", "", "why?", MaxTime, FALSE)) : k \in Keys }

NextMark ==
  \/ \E code \in StreamInputs : attempts = <<>> /\ startListening(code, MaxTime)
  \/ \E a \in DOMAIN attempts : PutApply(a)
  \/ \E a \in DOMAIN attempts : startListeningResume(a)
  \/ \E i \in DOMAIN listener.eventSources, frame \in QuestionPuts :
       /\ listener.eventSources[i].path = "questions"
       /\ SSEEvent(i, frame)
  \/ \E questionId \in Keys : markQuestionAnswered(questionId)
  \/ \E m \in DOMAIN marks, response \in Responses : MarkSettle(m, response)
  \/ \E m \in DOMAIN marks : markQuestionAnsweredResume(m)

SpecMark == Init /\ [][NextMark]_vars

\* the connection alone, with its failures and its timeout: no frame is streamed
NextConn ==
  \/ \E code \in RoomInputs, t \in Times : startListening(code, t)
  \/ \E a \in DOMAIN attempts : ConnectionTimeout(a)
  \/ \E a \in DOMAIN attempts : PutApply(a)
  \/ \E a \in DOMAIN attempts : PutFail(a)
  \/ \E a \in DOMAIN attempts : startListeningResume(a)
  \/ \E room \in LogRooms, mine \in BOOLEAN : DeleteApply(room, mine)
  \/ \E room \in LogRooms, mine \in BOOLEAN : DeleteFail(room, mine)
  \/ LeaveRoom

SpecConn == Init /\ [][NextConn]_vars

\* ================================================================== properties
\* every registration call has been answered and handled, and no removal request
\* is on its way
Quiescent ==
  /\ Pending(attempts) = {}
  /\ \A room \in LogRooms : deletes[room] = 0

\* C1: no item whose timestamp is below the connection-start cutoff (startTime)
\* is ever handed to a handler, by a put frame or by a patch frame, on any topic.
C1_StaleNeverForwarded == lastDelivery.stale = 0

\* C2: while the renderer is listening, a well-formed item with timestamp >= the
\* cutoff that the event log publishes once reaches its handler exactly once,
\* whatever connects, cancels and leaves came before.
C2_ForwardedExactlyOnce ==
  (/\ lastDelivery.op = "publish"
   /\ lastDelivery.listening
   /\ lastDelivery.wellFormed
   /\ lastDelivery.fresh) => lastDelivery.calls = 1

\* C3: a frame whose path is "/" invokes the topic callback zero times, whatever
\* it carries, as the first frame of a stream and later.
C3_RootFrameNeverDispatched ==
  (lastDelivery.op = "frame" /\ lastDelivery.root) => lastDelivery.calls = 0

\* C4: when an attempt was cancelled before its registration PUT settled, then
\* once every request has settled the room it registered has no host entry
\* (rooms another attempt also registered are left out).
C4_NoPresenceAfterCancel ==
  \A a \in DOMAIN attempts :
    (/\ attempts[a].cancelled
     /\ Quiescent
     /\ \A b \in DOMAIN attempts : b # a => attempts[b].putRoom # attempts[a].putRoom)
    => ~host[attempts[a].putRoom]

\* C5: an attempt cancelled (by a click or by the timeout) while connecting never
\* ends connected: once its registration has settled its result was discarded
\* and no subscription it opened is open.
C5_CancelledNeverConnects ==
  \A a \in DOMAIN attempts :
    (attempts[a].cancelled /\ attempts[a].put = "settled")
    => /\ attempts[a].outcome # "connected"
       /\ \A i \in DOMAIN listener.eventSources : listener.eventSources[i].owner # a

\* C6, as stated: after a successful connect and a leave, once the removal request
\* of the leave has settled the normalized code has no host entry.
C6_NoResidualPresence ==
  (ghost.leave.clean /\ ghost.leave.del \in {"ok", "failed"}) => ~host[ghost.leave.room]

\* C6, amended: when a connect that ran alone and undisturbed succeeded and leave
\* follows, leave issues a removal request for the normalized code, and if that
\* request succeeds the normalized code has no host entry.
C6_NoResidualPresenceIfRemoved ==
  ghost.leave.clean =>
    /\ ghost.leave.del # "none"
    /\ ghost.leave.del = "ok" => ~host[ghost.leave.room]

C6_Witness ==
  /\ ghost.leave.clean
  /\ ghost.leave.del = "ok"
  /\ ghost.leave.room = <<"a", "b">>
  /\ ~host[ghost.leave.room]

\* C7: after any sequence of spawn, frame callback and clear, at most poolSize
\* slots are in use and the pool holds at most poolSize slots.
C7_PoolBounded ==
  \A s \in Animators :
    /\ InUseCount(PoolOf(s)) <= poolSize
    /\ Len(PoolOf(s).slots) <= poolSize

C7_Witness ==
  \E s \in Animators : InUseCount(PoolOf(s)) = poolSize /\ calls[s].dropped > 0

\* C8: spawn on an exhausted pool changes no slot, allocates none and leaves
\* activeCount alone; and N spawns on an idle pool with no animation completing
\* leave min(N, poolSize) slots in use and max(0, N - poolSize) requests dropped.
C8_ExhaustedSpawnDrops ==
  /\ [](\A s \in Animators :
          calls[s].base = 0 =>
            /\ InUseCount(PoolOf(s)) =
                 (IF calls[s].requests < poolSize THEN calls[s].requests ELSE poolSize)
            /\ calls[s].dropped =
                 (IF calls[s].requests < poolSize THEN 0 ELSE calls[s].requests - poolSize))
  /\ [][\A s \in Animators :
          (InUseCount(PoolOf(s)) = poolSize /\ calls'[s].requests = calls[s].requests + 1)
          => /\ PoolOf(s)' = PoolOf(s)
             /\ calls'[s].dropped = calls[s].dropped + 1]_vars

C8_Witness ==
  \E s \in Animators :
    /\ calls[s].base = 0
    /\ calls[s].requests = poolSize + 2
    /\ calls[s].dropped = 2
    /\ InUseCount(PoolOf(s)) = poolSize

\* C9: a leave that directly follows a leave changes nothing of the listener
\* (roomCode, EventSources, questions, isConnected), of the renderer (counters,
\* toggles, status) or of the animators, and sends no removal request.
C9_LeaveIdempotent ==
  [][(ghost.leaves = 1 /\ ghost'.leaves = 2)
     => UNCHANGED << renderer, listener, animator, questionAnimator, secondaryWindows,
                     deletes >>]_vars

C9_Witness == ghost.leaves = 2 /\ ghost.leave.del # "none"

\* C10: from a leave until a connect next succeeds, no EventSource is open and no
\* handler is invoked.
C10_LeaveStopsAllTopics ==
  ghost.left => (listener.eventSources = <<>> /\ lastDelivery.calls = 0)

C10_Witness ==
  /\ ghost.left
  /\ ghost.leave.del # "none"
  /\ streamed > 0
  /\ Pending(attempts) # {}

\* attempt a's registration call has failed and this step resumes its startListening
FailedResume(a) == attempts[a].put = "fail" /\ attempts'[a].put = "settled"

C12_ShortCodeRejected ==
  [][\A code \in RoomInputs, t \in Times :
       (Len(Trim(code)) < 2 /\ startListening(code, t))
       => UNCHANGED << renderer, listener, attempts, deletes, host >>]_vars

\* the clock was read after the one attempt made, by a call that neither started
\* an attempt nor cancelled one
C12_Witness ==
  /\ Len(attempts) = 1
  /\ ~attempts[1].cancelled
  /\ renderer.isConnecting
  /\ listener.startTime = 0
  /\ now = 1

\* this step completes a connect: some attempt ends connected
ConnectStep ==
  \E a \in DOMAIN attempts :
    attempts[a].outcome = "pending" /\ attempts'[a].outcome = "connected"

\* C13: the reaction count and the slow, good and fast counts are all zero right
\* after every leave and after every successful connect, and no other step
\* decreases any of them.
C13_CountersMonotoneAndReset ==
  [][IF LeaveRoom \/ ConnectStep
     THEN /\ renderer'.reactionCount = 0
          /\ \A p \in PaceLevels : renderer'.paceCount[p] = 0
     ELSE /\ renderer'.reactionCount >= renderer.reactionCount
          /\ \A p \in PaceLevels : renderer'.paceCount[p] >= renderer.paceCount[p]]_vars

\* the step just taken handed one question, carried by a put frame, to the
\* questions callback
OneQuestionPut(d) ==
  /\ d.op = "frame" /\ d.event = "put" /\ d.topic = "questions" /\ d.calls = 1

\* C14: the question buffer never holds more than maxQuestions entries; a
\* question that arrives goes to the front, the entries before it keep their
\* order behind it, and when the buffer was full the one entry dropped is the
\* last, the oldest received.
C14_QuestionBufferBounded ==
  /\ [](Len(listener.questions) <= maxQuestions)
  /\ [][OneQuestionPut(lastDelivery') =>
          LET old == listener.questions
              new == listener'.questions
              f == lastDelivery'.frame
          IN /\ Len(new) = (IF Len(old) < maxQuestions THEN Len(old) + 1 ELSE maxQuestions)
             /\ new[1] = [id |-> KeyOfPath(f.path), text |-> f.data.text,
                          timestamp |-> f.data.timestamp, answered |-> f.data.answered]
             /\ \A j \in 2..Len(new) : new[j] = old[j - 1]]_vars

\* one more question than the buffer holds has been handled, the last by a put
C14_Witness ==
  /\ OneQuestionPut(lastDelivery)
  /\ InUseCount(questionAnimator) = maxQuestions + 1
  /\ Len(listener.questions) = maxQuestions

\* this step resumes call m of markQuestionAnswered, its write answered
MarkResume(m) == marks[m].status = "settled" /\ marks'[m].status = "done"

\* this step is a call of markQuestionAnswered(questionId) that sends one write of
\* answered = true for questionId in the listener's room, and nothing else
OneWrite(questionId) ==
  /\ Len(marks') = Len(marks) + 1
  /\ marks'[Len(marks')].id = questionId
  /\ marks'[Len(marks')].room = listener.roomCode
  /\ marks'[Len(marks')].status = "inflight"
  /\ \A m \in DOMAIN marks : marks'[m] = marks[m]
  /\ listener' = listener

\* C15, as stated: a call for a buffered, unanswered question sends exactly one
\* write, and when the call ends the entry reads answered; a call for an entry
\* that already reads answered leaves the listener unchanged.
C15_MarkAnswered ==
  [][/\ \A questionId \in Keys :
          (/\ markQuestionAnswered(questionId)
           /\ Standing(listener.questions, questionId) = "unanswered")
          => OneWrite(questionId)
     /\ \A m \in DOMAIN marks :
          MarkResume(m) =>
            /\ Standing(listener.questions, marks[m].id) = "unanswered"
                 => Standing(listener'.questions, marks[m].id) = "answered"
            /\ Standing(listener.questions, marks[m].id) = "answered"
                 => listener' = listener]_vars

\* C15, amended: a call for a buffered, unanswered question sends exactly one
\* write; when the call ends the entry reads answered if the request was
\* answered at all, and the listener is unchanged if the request failed. A call
\* for an entry that already reads answered leaves the listener unchanged, and no
\* call turns an answered flag back or changes anything else of the buffer.
C15_MarkAnsweredIfWritten ==
  [][/\ \A questionId \in Keys :
          (/\ markQuestionAnswered(questionId)
           /\ Standing(listener.questions, questionId) = "unanswered")
          => OneWrite(questionId)
     /\ \A m \in DOMAIN marks :
          MarkResume(m) =>
            /\ (/\ marks[m].response # "rejected"
                 /\ Standing(listener.questions, marks[m].id) = "unanswered")
                 => Standing(listener'.questions, marks[m].id) = "answered"
            /\ marks[m].response = "rejected" => listener' = listener
            /\ Standing(listener.questions, marks[m].id) = "answered"
                 => listener' = listener
            /\ Len(listener'.questions) = Len(listener.questions)
            /\ \A j \in DOMAIN listener.questions :
                 /\ listener.questions[j].answered => listener'.questions[j].answered
                 /\ [listener'.questions[j] EXCEPT !.answered = FALSE]
                      = [listener.questions[j] EXCEPT !.answered = FALSE]]_vars

\* the same question was marked twice: found unanswered the first time, its write
\* carried out, and found answered the second time
C15_Witness ==
  \E m1, m2 \in DOMAIN marks :
    /\ m1 < m2
    /\ marks[m1].id = marks[m2].id
    /\ marks[m1].status = "done" /\ marks[m1].response = "ok"
    /\ marks[m1].was = "unanswered"
    /\ marks[m2].status = "done" /\ marks[m2].was = "answered"
    /\ Standing(listener.questions, marks[m1].id) = "answered"

\* C16: a reaction handed to the router while the primary and the secondary
\* display are both enabled performs exactly one spawn on the primary pool (one
\* more slot in use, or the pool was exhausted and is unchanged) and sends
\* exactly one 'spawn-emoji' message to every secondary window that is not
\* destroyed and none to a destroyed one; the list of windows is otherwise the same
ReactionRouted == \E emoji \in Emojis : TestEmojiTick(emoji)

C16_OneSpawnOneMessagePerSurface ==
  [][ ( ReactionRouted /\ renderer.reactionsEnabled /\ renderer.reactionsEnabledSecondary )
      => /\ animator' = spawn(animator)
         /\ InUseCount(animator') =
              IF InUseCount(animator) < poolSize THEN InUseCount(animator) + 1 ELSE poolSize
         /\ questionAnimator' = questionAnimator
         /\ DOMAIN secondaryWindows' = DOMAIN secondaryWindows
         /\ \A i \in DOMAIN secondaryWindows :
              /\ secondaryWindows'[i].id = secondaryWindows[i].id
              /\ secondaryWindows'[i].destroyed = secondaryWindows[i].destroyed
              /\ secondaryWindows'[i].received =
                   secondaryWindows[i].received + (IF secondaryWindows[i].destroyed THEN 0 ELSE 1)
    ]_vars

\* a reaction was routed with two secondary windows in the list, one destroyed
\* (no message) and one live (one message), and one slot of the primary pool in use
C16_Witness ==
  /\ renderer.reactionCount = 1
  /\ InUseCount(animator) = 1
  /\ \E i, j \in DOMAIN secondaryWindows :
       /\ secondaryWindows[i].destroyed /\ secondaryWindows[i].received = 0
       /\ ~secondaryWindows[j].destroyed /\ secondaryWindows[j].received = 1

\* C17: the list of secondary windows never holds a window that was closed by a
\* rebuild, and every display-added or display-removed event closes every window
\* of the list that was still alive and leaves a list with exactly one window per
\* current non-primary display, each of them new (an id no earlier window had,
\* not destroyed, no message received yet) and none of them from the list before;
\* a broadcast only sends to the windows of the list, so it reaches only these
TopologyChange == \E d \in 1..MaxDisplays : DisplayChange(d)

WindowIds(sw) == {sw[i].id : i \in DOMAIN sw}

C17_TopologyChangeRebuilds ==
  /\ [](WindowIds(secondaryWindows) \cap screen.closed = {})
  /\ [][ TopologyChange
         => /\ \A i \in DOMAIN secondaryWindows :
                 ~secondaryWindows[i].destroyed => secondaryWindows[i].id \in screen'.closed
            /\ WindowIds(secondaryWindows') \cap WindowIds(secondaryWindows) = {}
            /\ Len(secondaryWindows') = Cardinality(screen'.displays)
            /\ \A d \in screen'.displays :
                 Cardinality({i \in DOMAIN secondaryWindows' : secondaryWindows'[i].display = d}) = 1
            /\ \A i \in DOMAIN secondaryWindows' :
                 /\ secondaryWindows'[i].id > screen.created
                 /\ ~secondaryWindows'[i].destroyed
                 /\ secondaryWindows'[i].received = 0
       ]_vars

\* after a display was added, the old window is closed and a later broadcast has
\* reached both windows of the rebuilt list
C17_Witness ==
  /\ screen.closed # {}
  /\ Len(secondaryWindows) = 2
  /\ \A i \in DOMAIN secondaryWindows : secondaryWindows[i].received = 1

\* C18: a spawn, a frame tick or a clear on one EmojiAnimator leaves the slots,
\* the pending frames and activeCount of the other one as they were, and a spawn
\* on an animator with a free slot takes a slot also when the other animator is
\* exhausted
Other(s) == IF s = "animator" THEN "questionAnimator" ELSE "animator"

ActsOn(s) ==
  \/ Spawn(s)
  \/ \E f \in PoolOf(s).frames, done \in BOOLEAN : AnimationFrame(s, f, done)
  \/ Clear(s)

C18_PoolsIsolated ==
  [][ \A s \in Animators :
        /\ ActsOn(s) =>
             IF s = "animator" THEN questionAnimator' = questionAnimator
                               ELSE animator' = animator
        /\ ( Spawn(s) /\ InUseCount(PoolOf(s)) < poolSize
                      /\ InUseCount(PoolOf(Other(s))) = poolSize )
             => IF s = "animator"
                THEN /\ InUseCount(animator') = InUseCount(animator) + 1
                     /\ animator'.activeCount = animator.activeCount + 1
                ELSE /\ InUseCount(questionAnimator') = InUseCount(questionAnimator) + 1
                     /\ questionAnimator'.activeCount = questionAnimator.activeCount + 1
    ]_vars

\* the reaction pool is exhausted and has dropped a spawn, while the question
\* pool holds one running animation and has dropped none
C18_Witness ==
  /\ InUseCount(animator) = poolSize
  /\ calls["animator"].dropped > 0
  /\ InUseCount(questionAnimator) = 1
  /\ questionAnimator.activeCount = 1
  /\ calls["questionAnimator"].dropped = 0

\* C19: when the streaming subscription of a topic errors after the connect, the
\* listener reports not connected and the status callback has run with false
\* (the status line reads 'Disconnected', as an error), and the client opens no
\* new subscription and starts no new connect
StreamError == \E i \in DOMAIN listener.eventSources : SSEError(i)

C19_StreamErrorReported ==
  [][ StreamError
      => /\ ~listener'.isConnected
         /\ renderer'.status = [text |-> "Disconnected", connected |-> FALSE, error |-> TRUE]
         /\ listener'.eventSources = listener.eventSources
         /\ attempts' = attempts
    ]_vars

\* C20: a frame whose payload does not parse is dropped: no handler is invoked,
\* and the renderer, the listener (the snapshot-seen flag of every subscription
\* included), the animators and the secondary windows are as before; the frame
\* that follows it on a subscription is processed as usual: a parsed put of one
\* fresh well-formed item, on a subscription past its snapshot while the renderer
\* listens, is handed to its handler exactly once
MalformedFrame ==
  \E i \in DOMAIN listener.eventSources :
    \E frame \in StreamFrames(listener.eventSources[i].path) :
      ~frame.parseOk /\ SSEEvent(i, frame)

C20_MalformedFrameDropped ==
  /\ [][ MalformedFrame
         => /\ lastDelivery'.calls = 0
            /\ UNCHANGED << renderer, listener, animator, questionAnimator, secondaryWindows >>
       ]_vars
  /\ []( ( lastDelivery.afterDrop /\ lastDelivery.op = "frame" /\ lastDelivery.event = "put"
           /\ lastDelivery.parseOk /\ ~lastDelivery.root /\ lastDelivery.live
           /\ lastDelivery.wellFormed /\ lastDelivery.fresh /\ lastDelivery.listening )
         => lastDelivery.calls = 1 )

\* a put was handed to its handler by the step right after a frame that did not parse
C20_Witness ==
  /\ lastDelivery.afterDrop
  /\ lastDelivery.op = "frame" /\ lastDelivery.event = "put" /\ lastDelivery.parseOk
  /\ lastDelivery.calls = 1

\* C21: leaving the room returns every slot of the primary animation pool:
\* right after leaveRoom() no slot of animator is in use and none of its frame
\* callbacks is pending
C21_LeaveClearsAnimations ==
  [][ LeaveRoom => ( InUseCount(animator') = 0 /\ animator'.frames = {} ) ]_vars

\* C22: whenever no registration write and no removal request is on its way,
\* at most one room has a host entry, and none has one when the connection is
\* idle (the listener has no room, the renderer neither connects nor listens)
Idle == listener.roomCode = NULL /\ ~renderer.isConnecting /\ ~renderer.isListening

HostedRooms == {room \in LogRooms : host[room]}

C22_AtMostOnePresence ==
  Quiescent => /\ Cardinality(HostedRooms) <= 1
               /\ Idle => HostedRooms = {}

\* C23: in every reachable state at most one subscription is open per topic (at
\* most three in all) and all open subscriptions read the same room
C23_OneActiveRoom ==
  /\ Len(listener.eventSources) <= 3
  /\ \A i, j \in DOMAIN listener.eventSources :
       /\ listener.eventSources[i].room = listener.eventSources[j].room
       /\ listener.eventSources[i].path = listener.eventSources[j].path => i = j

\* C24: room codes are case-insensitive and trimmed. Two codes are alike when
\* they are the same letters, up to case, inside any number of blanks. The host
\* entry a connect writes, the room of every open subscription, the host entry
\* the audience page looks up and the room it writes reactions to are the
\* lowercase, blank-free code alike to what was typed; codes that are alike are
\* normalized to the same code by both programs, and normalizing twice is
\* normalizing once
Upper(ch) ==
  CASE ch = "a" -> "A"
    [] ch = "b" -> "B"
    [] ch = "c" -> "C"
    [] ch = "d" -> "D"
    [] OTHER -> ch

Alike(c1, c2) ==
  \E i1, j1 \in 0..(Len(c1) + 1), i2, j2 \in 0..(Len(c2) + 1) :
    /\ \A n \in DOMAIN c1 : (n < i1 \/ n > j1) => c1[n] = " "
    /\ \A n \in DOMAIN c2 : (n < i2 \/ n > j2) => c2[n] = " "
    /\ i1 >= 1 /\ i2 >= 1 /\ j1 <= Len(c1) /\ j2 <= Len(c2)
    /\ j1 - i1 = j2 - i2
    /\ j1 >= i1
    /\ \A n \in 0..(j1 - i1) :
         /\ c1[i1 + n] # " " /\ c2[i2 + n] # " "
         /\ Upper(c1[i1 + n]) = Upper(c2[i2 + n])

Cores == { <<"a", "b">>, <<"c", "d">> }

C24_RoomCodesNormalized ==
  /\ \A c1, c2 \in RoomVariants :
       /\ Alike(c1, c2) => ( Normalize(c1) = Normalize(c2) /\ ClientRoom(c1) = Normalize(c2) )
       /\ Normalize(Normalize(c1)) = Normalize(c1)
       /\ ClientRoom(ClientRoom(c1)) = ClientRoom(c1)
  /\ \A a \in DOMAIN attempts : \A k \in Cores :
       Alike(attempts[a].roomCode, k) => attempts[a].putRoom = k
  /\ \A i \in DOMAIN listener.eventSources :
       /\ listener.eventSources[i].room = listener.roomCode
       /\ \E a \in DOMAIN attempts : \E k \in Cores :
            Alike(attempts[a].roomCode, k) /\ listener.eventSources[i].room = k
  /\ \A room \in LogRooms : host[room] => room \in Cores
  /\ \A k \in Cores :
       /\ ( audience.check.waiting /\ Alike(audience.check.input, k) ) => audience.check.key = k
       /\ ( audience.roomCode # NULL /\ Alike(audience.input, k) ) => audience.roomCode = k

\* C25: a host entry that stays behind because the removal request of a leave
\* failed is eventually removed by the cleanup once the reactions and pace items
\* of its room are older than the retention period (unless newer items arrive)
Aged(room) ==
  \A t \in stored[room].reactions \cup stored[room].pace : t < now - RetentionDays

LeftBehind(room) == ghost.leave.del = "failed" /\ ghost.leave.room = room /\ host[room]

C25_StaleRoomExpires ==
  \A room \in LogRooms :
    ( LeftBehind(room) /\ Aged(room) ) ~> ( ~host[room] \/ ~Aged(room) )

\* C26: every slot a spawn took is returned later on (inUse false, no frame
\* callback pending) with nothing more than the frame callbacks running, and it
\* is returned once: the frame at progress 1 frees exactly its own slot and
\* lowers activeCount by one, and activeCount always counts the slots in use
Completes(s) == \E i \in 1..poolSize : SlotCompletes(s, i)

C26_SlotEventuallyReturned ==
  /\ \A s \in Animators : \A i \in 1..poolSize :
       PoolOf(s).slots[i].inUse
         ~> ( ~PoolOf(s).slots[i].inUse /\ \A f \in PoolOf(s).frames : f.slot # i )
  /\ [](\A s \in Animators : PoolOf(s).activeCount = InUseCount(PoolOf(s)))
  /\ [][ ( Completes("animator")
           => /\ InUseCount(animator') = InUseCount(animator) - 1
              /\ animator'.activeCount = animator.activeCount - 1 )
         /\ ( Completes("questionAnimator")
           => /\ InUseCount(questionAnimator') = InUseCount(questionAnimator) - 1
              /\ questionAnimator'.activeCount = questionAnimator.activeCount - 1 )
       ]_vars

\* of two running animations one has completed: its slot is free again, the
\* other is still in use
C26_Witness ==
  \E s \in Animators :
    /\ calls[s].base = 1 /\ calls[s].requests = 0
    /\ InUseCount(PoolOf(s)) = 1
    /\ PoolOf(s).activeCount = 1
    /\ ~PoolOf(s).slots[1].inUse

\* C27: after clear() every slot is free with no animationId, activeCount is 0
\* and no frame callback is pending; a slot that was free before is unchanged;
\* and clear() on the result changes nothing
C27_ClearReturnsAll ==
  [][ \A s \in Animators :
        Clear(s)
        => LET before == PoolOf(s)
               after == IF s = "animator" THEN animator' ELSE questionAnimator'
           IN /\ \A i \in 1..Len(after.slots) :
                   /\ ~after.slots[i].inUse
                   /\ after.slots[i].animationId = 0
                   /\ ~before.slots[i].inUse => after.slots[i] = before.slots[i]
              /\ Len(after.slots) = Len(before.slots)
              /\ after.activeCount = 0
              /\ after.frames = {}
              /\ clear(after) = after
    ]_vars

\* clear() has just returned the slots of an exhausted pool
C27_Witness ==
  /\ lastDelivery.op = "clear"
  /\ lastDelivery.size = poolSize
  /\ \E s \in Animators :
       /\ lastDelivery.topic = s
       /\ InUseCount(PoolOf(s)) = 0
       /\ PoolOf(s).activeCount = 0

\* C28: every subscription starts awaiting its snapshot, whatever subscriptions
\* came before it, and only a put on the root path, received by that same
\* subscription, marks the snapshot as seen; a put on the path of a single item
\* invokes a handler only on a subscription that has seen its snapshot, and
\* before that it is dropped and changes nothing
C28_SinglesWaitForSnapshot ==
  /\ []( ( lastDelivery.op = "frame" /\ lastDelivery.event = "put"
           /\ ~lastDelivery.root /\ ~lastDelivery.live )
         => lastDelivery.calls = 0 )
  /\ [][ /\ \A i \in DOMAIN listener'.eventSources :
              ( i \notin DOMAIN listener.eventSources
                \/ listener.eventSources[i].owner # listener'.eventSources[i].owner )
              => ~listener'.eventSources[i].initialLoadComplete
         /\ \A i \in DOMAIN listener.eventSources \cap DOMAIN listener'.eventSources :
              ( /\ listener.eventSources[i].owner = listener'.eventSources[i].owner
                /\ ~listener.eventSources[i].initialLoadComplete
                /\ listener'.eventSources[i].initialLoadComplete )
              => /\ lastDelivery'.op = "frame"
                 /\ lastDelivery'.event = "put" /\ lastDelivery'.root /\ lastDelivery'.parseOk
                 /\ lastDelivery'.topic = listener.eventSources[i].path
         /\ ( lastDelivery'.op = "frame" /\ lastDelivery'.event = "put"
              /\ ~lastDelivery'.root /\ ~lastDelivery'.live )
            => UNCHANGED << renderer, listener, animator, questionAnimator, secondaryWindows >>
       ]_vars

\* after an earlier connect, a subscription of the second connect that has not
\* seen its snapshot received a fresh, well-formed single item and dropped it
C28_Witness ==
  /\ Len(attempts) = 2
  /\ attempts[1].outcome = "connected"
  /\ attempts[2].outcome = "connected"
  /\ renderer.isListening
  /\ lastDelivery.op = "frame" /\ lastDelivery.event = "put" /\ lastDelivery.parseOk
  /\ ~lastDelivery.root /\ ~lastDelivery.live
  /\ lastDelivery.wellFormed /\ lastDelivery.fresh
  /\ lastDelivery.calls = 0
  /\ \A i \in DOMAIN listener.eventSources : listener.eventSources[i].owner = 2

\* C29, as stated: a patch frame that carries k key/value pairs invokes the
\* topic callback exactly k times, once per pair, in the order of the keys in
\* the frame, whether or not the subscription has seen its snapshot
FrameKeys(frame) == [n \in DOMAIN frame.entries |-> frame.entries[n].key]

IsPatch(d) == d.op = "frame" /\ d.event = "patch" /\ d.parseOk /\ d.frame.isObject

C29_PatchDispatchesEachPair ==
  IsPatch(lastDelivery) => lastDelivery.keys = FrameKeys(lastDelivery.frame)

\* C29, amended: the callback is invoked exactly k times, once per pair, the
\* pairs whose keys are array indices first, in ascending order, then the other
\* pairs in the order of the frame (for frames without index keys: the order of
\* the frame), whether or not the subscription has seen its snapshot
OrderedKeys(keys) ==
  LET IsIndex(k) == k \in IndexKeys
      IsName(k) == k \notin IndexKeys
      idx == SelectSeq(keys, IsIndex)
  IN /\ \A n, m \in DOMAIN idx : n < m => IndexOf(idx[n]) <= IndexOf(idx[m])
     /\ \A n, m \in DOMAIN keys : ( IsIndex(keys[n]) /\ IsName(keys[m]) ) => n < m

C29_PatchDispatchesEachPairInEntryOrder ==
  IsPatch(lastDelivery) =>
    /\ Len(lastDelivery.keys) = Len(lastDelivery.frame.entries)
    /\ \A k \in {lastDelivery.keys[n] : n \in DOMAIN lastDelivery.keys} :
         Cardinality({n \in DOMAIN lastDelivery.keys : lastDelivery.keys[n] = k})
           = Cardinality({n \in DOMAIN lastDelivery.frame.entries :
                            lastDelivery.frame.entries[n].key = k})
    /\ OrderedKeys(lastDelivery.keys)
    /\ SelectSeq(lastDelivery.keys, LAMBDA k : k \notin IndexKeys)
         = SelectSeq(FrameKeys(lastDelivery.frame), LAMBDA k : k \notin IndexKeys)
    /\ ( \A n \in DOMAIN lastDelivery.frame.entries :
           lastDelivery.frame.entries[n].key \notin IndexKeys )
       => lastDelivery.keys = FrameKeys(lastDelivery.frame)

\* a patch of two pairs reached a subscription that had not seen its snapshot
\* and the callback ran for both, in the order of the frame
C29_Witness ==
  /\ IsPatch(lastDelivery)
  /\ ~lastDelivery.live
  /\ lastDelivery.keys = << <<"k", "1">>, <<"k", "2">> >>

\* C30: a free slot has no animationId and no pending frame callback, and every
\* pending frame callback is the one its slot's animationId names, so a slot
\* returned by clear() and spawned again is driven only by the frame loop of
\* its latest spawn
FramesOf(p, i) == {f \in p.frames : f.slot = i}

C30_FreeSlotHasNoFrame ==
  \A s \in Animators : \A i \in 1..Len(PoolOf(s).slots) :
    LET p == PoolOf(s) IN
    /\ ~p.slots[i].inUse => ( p.slots[i].animationId = 0 /\ FramesOf(p, i) = {} )
    /\ p.slots[i].inUse =>
         FramesOf(p, i) = { [id |-> p.slots[i].animationId, slot |-> i] }

\* clear() returned every slot of an exhausted pool while their frame loops
\* were running, and the next spawn has just taken one of them again
C30_Witness ==
  /\ lastDelivery.op = "spawn"
  /\ lastDelivery.cleared = poolSize
  /\ lastDelivery.size # 0
  /\ \E s \in Animators :
       /\ lastDelivery.topic = s
       /\ PoolOf(s).slots[lastDelivery.size].inUse
       /\ Cardinality(PoolOf(s).frames) = 1

\* C31: after any sequence of spawn, frame callback and clear, activeCount (what
\* getActiveCount returns) is the number of slots in use, and so lies within
\* 0..poolSize
getActiveCount(p) == p.activeCount

C31_ActiveCountIsInUseCount ==
  \A s \in Animators :
    /\ getActiveCount(PoolOf(s)) = InUseCount(PoolOf(s))
    /\ getActiveCount(PoolOf(s)) \in 0..poolSize

\* an animation has completed below running ones: the first slot of one animator
\* is free again while its other slots are in use, and clear() has just emptied
\* the other animator
C31_Witness ==
  \E s \in Animators :
    /\ ~PoolOf(s).slots[1].inUse
    /\ PoolOf(s).slots[poolSize].inUse
    /\ getActiveCount(PoolOf(s)) = poolSize - 1
    /\ \E t \in Animators : t # s /\ getActiveCount(PoolOf(t)) = 0
                             /\ lastDelivery.op = "clear" /\ lastDelivery.topic = t
                             /\ lastDelivery.size > 0

\* this step resumes attempt a, whose registration call has settled
Settles(a) == attempts[a].put \in {"ok", "fail"} /\ attempts'[a].put = "settled"

\* C32: when the registration call of an attempt that was cancelled or timed out
\* settles, the status shown afterwards is that of the cancel ('Cancelled' or
\* 'Connection timed out') and does not report connected
C32_DiscardedAttemptNotConnected ==
  [][ \A a \in DOMAIN attempts :
        ( Settles(a) /\ attempts[a].cancelled ) =>
          /\ renderer'.status.text \in {"Cancelled", "Connection timed out"}
          /\ ~renderer'.status.connected ]_vars

\* this step runs the timer callback of attempt a
TimerFires(a) == attempts[a].timeout = "armed" /\ attempts'[a].timeout = "fired"

\* attempt a has ended: it was cancelled or timed out, or its startListening
\* has returned (connected, failed or aborted)
Ended(a) == attempts[a].cancelled \/ attempts[a].put = "settled"

\* C33: the timer of an attempt that has ended is disarmed or inert: when it
\* fires it changes nothing of the renderer or the listener and sends no
\* request, so it cancels no later attempt and no established connection
C33_TimerOnlyForItsAttempt ==
  [][ \A a \in DOMAIN attempts :
        ( TimerFires(a) /\ Ended(a) ) =>
          UNCHANGED << renderer, listener, deletes >> ]_vars

\* C34: every open subscription is on the normalized room code that was passed
\* to the connect call which opened it, never on the absent room and never on
\* the room of another connect attempt
C34_SubscriptionOnOwnRoom ==
  \A i \in DOMAIN listener.eventSources :
    LET es == listener.eventSources[i] IN
    /\ es.room # UrlRoom(NULL)
    /\ es.room = Normalize(attempts[es.owner].roomCode)

\* C35: whenever the connection is Connected and no registration write and no
\* removal request is on its way, the current room has its host entry
Connected == renderer.isListening /\ listener.isConnected /\ listener.roomCode # NULL

C35_ConnectedHasPresence ==
  ( Connected /\ Quiescent ) => host[listener.roomCode]

\* C36: whenever the renderer is listening (and no connect attempt is waiting
\* for its registration call), the listener has an open subscription for each of
\* the three topics on the room whose normalized code is that of currentRoomCode
C36_ListeningHasSubscriptions ==
  ( renderer.isListening /\ Pending(attempts) = {} ) =>
    /\ renderer.currentRoomCode # NULL
    /\ \A t \in DOMAIN Topics :
         \E i \in DOMAIN listener.eventSources :
           /\ listener.eventSources[i].path = Topics[t]
           /\ listener.eventSources[i].room = Normalize(renderer.currentRoomCode)

\* C37: the question buffer never holds two entries with the same question id,
\* whatever put and patch frames the questions topic delivers
C37_QuestionIdsDistinct ==
  \A i, j \in DOMAIN listener.questions :
    listener.questions[i].id = listener.questions[j].id => i = j

\* C38: a reaction handed to the router adds exactly one to the reaction count
\* whatever the toggles are, spawns on the primary pool if and only if
\* reactionsEnabled, broadcasts to the secondary windows if and only if
\* reactionsEnabledSecondary and leaves both toggles alone; a change of either
\* toggle changes neither the counters, nor the other toggle, nor any surface
PrimaryToggled == \E checked \in BOOLEAN : ReactionsToggle(checked)

SecondaryToggled == \E checked \in BOOLEAN : ReactionsToggleSecondary(checked)

C38_CountAlwaysSurfacesIfEnabled ==
  [][ /\ ReactionRouted =>
           /\ renderer'.reactionCount = renderer.reactionCount + 1
           /\ animator' = IF renderer.reactionsEnabled THEN spawn(animator) ELSE animator
           /\ secondaryWindows' = IF renderer.reactionsEnabledSecondary
                                  THEN broadcastEmoji(secondaryWindows)
                                  ELSE secondaryWindows
           /\ questionAnimator' = questionAnimator
           /\ renderer'.reactionsEnabled = renderer.reactionsEnabled
           /\ renderer'.reactionsEnabledSecondary = renderer.reactionsEnabledSecondary
           /\ renderer'.paceCount = renderer.paceCount
      /\ PrimaryToggled =>
           /\ renderer'.reactionsEnabled # renderer.reactionsEnabled
           /\ renderer'.reactionsEnabledSecondary = renderer.reactionsEnabledSecondary
      /\ SecondaryToggled =>
           /\ renderer'.reactionsEnabledSecondary # renderer.reactionsEnabledSecondary
           /\ renderer'.reactionsEnabled = renderer.reactionsEnabled
      /\ ( PrimaryToggled \/ SecondaryToggled ) =>
           /\ renderer'.reactionCount = renderer.reactionCount
           /\ renderer'.paceCount = renderer.paceCount
           /\ UNCHANGED << animator, questionAnimator, secondaryWindows >>
    ]_vars

\* two reactions were routed with both toggles off, and a third with only the
\* secondary toggle on: three counted, none spawned, one message sent
C38_Witness ==
  /\ renderer.reactionCount = 3
  /\ ~renderer.reactionsEnabled
  /\ renderer.reactionsEnabledSecondary
  /\ InUseCount(animator) = 0
  /\ \E i \in DOMAIN secondaryWindows : secondaryWindows[i].received = 1
  /\ \A i \in DOMAIN secondaryWindows : secondaryWindows[i].received <= 1

\* C39: any two reactions the audience page writes are at least DEBOUNCE_MS
\* apart; a send that comes sooner, carries an invalid emoji or is made outside a
\* room returns false and writes nothing; and a rejected send does not delay the
\* next valid send: a valid emoji sent in a room DEBOUNCE_MS or more after the
\* last write is written
Send(emoji, pushOk) == sendReaction(emoji, pushOk)

Spaced(sent) == \A n \in 2..Len(sent) : sent[n] - sent[n - 1] >= DEBOUNCE_MS

C39_RateLimited ==
  /\ [] Spaced(audience.sent)
  /\ [][ \A emoji \in SendInputs, pushOk \in BOOLEAN :
           Send(emoji, pushOk) =>
             /\ ( \/ audience.roomCode = NULL
                  \/ emoji \notin validEmojis
                  \/ audience.clock - audience.lastSentTime < DEBOUNCE_MS )
                => ( ~audience'.last.ok /\ audience'.sent = audience.sent )
             /\ ( /\ audience.roomCode # NULL
                  /\ emoji \in validEmojis
                  /\ pushOk
                  /\ Len(audience.sent) < MaxSends
                  /\ ( audience.sent = <<>>
                       \/ audience.clock - audience.sent[Len(audience.sent)] >= DEBOUNCE_MS ) )
                => ( audience'.last.ok /\ Len(audience'.sent) = Len(audience.sent) + 1 )
       ]_vars

\* C40: the cleanup never removes a room that has an active host entry at the
\* moment of the removal, whatever a presenter or a producer does between the
\* cleanup's read of the room and its remove()
Removed(room) == room \in removals /\ room \notin removals'

C40_CleanupSparesActiveHost ==
  [][ \A room \in LogRooms : Removed(room) => ~host[room] ]_vars

====
